---- MODULE Spec2Model ----
(***************************************************************************)
(* ZemDomu extension: the single-file linter (src/src/linter.ts), the      *)
(* lightweight HTML tokenizer and tree builder and the cross-component     *)
(* analyzer (src/src/component-analyzer.ts), and the run-id guarded        *)
(* publication of diagnostics (src/src/extension.ts).                      *)
(*                                                                         *)
(* The module holds several state machines that share no state.  Each has  *)
(* its own specifications; the variables of the others stay at their       *)
(* initial value.                                                          *)
(*   SpecGraph, SpecMerge, SpecTies, SpecCross : ComponentAnalyzer         *)
(*   SpecRun, SpecRunFair : lintEntries / lintWorkspaceAtomic              *)
(*   SpecTok              : tokenize / parse of simpleHtmlParser           *)
(*   SpecRules, SpecHeadings, SpecLists, SpecIds, SpecLabels,              *)
(*   SpecDirectives, SpecStacks, SpecSections, SpecText : lintHtml         *)
(*   SpecCalls            : calls of lintHtml one after the other          *)
(*   SpecRegistry : analyzeFile and registerComponent                      *)
(*   SpecBatch            : lintWorkspace with its module-level analyzer   *)
(*   SpecRemap            : remapCrossComponent                            *)
(*   SpecResolver         : ComponentPathResolver.resolve                  *)
(***************************************************************************)
EXTENDS Integers, Sequences, FiniteSets, TLC

VARIABLES
  \* ---- ComponentAnalyzer ----
  componentRegistry,   \* Map<string, ComponentDefinition>, as a function on the registered paths
  registryKeys,        \* the Map's insertion order (a re-set key keeps its place)
  treeOptions,         \* this.options of the analyzer
  treeStatus,          \* "none" | "done" | "RangeError": outcome of the last analyzeComponentTree()
  treeResults,         \* its return value
  held,                \* the ComponentDefinition objects analyzeFile returned to callers that
                       \* keep them, each with the content it was extracted from
  \* ---- extension.ts lint runs ----
  globalRunId, runs, diagnostics, diagCache, issueCounts,
  runningWorkspace, workspaceQueued, workspaceLinted,
  command,             \* the zemdomu.lintWorkspace command: its promise, and globalRunId at its call
  \* ---- simpleHtmlParser tokenizer ----
  html, tokI, tokens, tokStatus, parseStack,
  \* ---- the workspace scan of the extension with its own analyzer ----
  batch,               \* componentAnalyzer, the registries of the analyzer objects, the scans
  \* ---- cross-remap ----
  remap,               \* the call of remapCrossComponent: its arguments and what it returned
  \* ---- ComponentPathResolver ----
  resolver,            \* its static caches, the files that exist, the calls of resolve so far
  \* ---- linter ----
  lint,                \* the call of lintHtml: mode, options, and the locals of the backend
  doc,                 \* the nodes of its input visited so far
  calls                \* the calls of lintHtml that returned: input, options, results

treeVars == <<componentRegistry, registryKeys, treeOptions, treeStatus, treeResults, held>>
runVars  == <<globalRunId, runs, diagnostics, diagCache, issueCounts,
              runningWorkspace, workspaceQueued, workspaceLinted, command>>
tokVars  == <<html, tokI, tokens, tokStatus, parseStack>>
lintVars == <<lint, doc, calls>>
batchVars == <<batch>>
remapVars == <<remap>>
resolverVars == <<resolver>>
vars     == <<treeVars, runVars, tokVars, lintVars, batchVars, remapVars, resolverVars>>

\* ComponentReference.path of an import that did not resolve (null); files are 1..n
NoPath == 0

(***************************************************************************)
(* Generic helpers                                                         *)
(***************************************************************************)
Range(s) == {s[i] : i \in 1..Len(s)}

SeqsUpTo(S, n) == UNION {[1..k -> S] : k \in 0..n}

\* JavaScript  a || b  on numbers: 0 is falsy.
JsOr(a, b) == IF a # 0 THEN a ELSE b

\* position order used by every comparator of the analyzer: line, then column
PosLess(a, b) == a.line < b.line \/ (a.line = b.line /\ a.column < b.column)

RECURSIVE InsertSorted(_, _)
InsertSorted(s, x) ==
  IF s = <<>> THEN <<x>>
  ELSE IF PosLess(x.pos, s[Len(s)].pos)
       THEN Append(InsertSorted(SubSeq(s, 1, Len(s) - 1), x), s[Len(s)])
       ELSE Append(s, x)

RECURSIVE SortDecorated(_)
SortDecorated(s) ==
  IF s = <<>> THEN <<>>
  ELSE InsertSorted(SortDecorated(SubSeq(s, 1, Len(s) - 1)), s[Len(s)])

\* Array.prototype.sort with the (line, column) comparator on key(element); stable.
SortByPos(s, key(_)) ==
  LET d == SortDecorated([i \in DOMAIN s |-> [pos |-> key(s[i]), val |-> s[i]]])
  IN [i \in DOMAIN d |-> d[i].val]

(***************************************************************************)
(* ComponentAnalyzer: inputs                                               *)
(***************************************************************************)
\* Bounds of the analyzer's inputs.
NumGraphPaths == 4      \* files of the usage-graph family
NumMergePaths == 2      \* files of the heading-merge family
MaxItems      == 2      \* JSX elements of interest per file
MaxLevel      == 3      \* heading levels h1..hMaxLevel

GraphPaths == 1..NumGraphPaths
MergePaths == 1..NumMergePaths

\* The engine's call-stack limit, beyond which a call throws RangeError.  Any
\* chain of findReferenceForComp calls longer than the number of files enters
\* some file twice, and the call is a function of the file alone.
CallDepthLimit == NumGraphPaths + 2

\* A file is the sequence of its JSX elements of interest in document order
\* (headings and capitalised component usages whose import resolves to `path`)
\* and a layout that fixes where babel locates them.
HeadingItem(l) == [k |-> "h", level |-> l, path |-> 0]
UseItem(q)     == [k |-> "use", level |-> 0, path |-> q]
\* <H1>..<H6> imported as a component from `path`: the element's lowercased
\* name matches /^h[1-6]$/ and its name matches /^[A-Z]/, so the visitor takes
\* both of its branches
CapitalHeadingItem(l, q) == [k |-> "H", level |-> l, path |-> q]

\* the JSX name a usage is recorded under: a component is named after its file;
\* the names H1..H6 are written as -1..-6
usedName(it) == IF it.k = "H" THEN 0 - it.level ELSE it.path

\* 0-based (line, column) of the i-th element: all on the first line, or one per
\* line at the start of the line, below the import line.
PosOf(layout, i) ==
  IF layout = "inline" THEN [line |-> 0, column |-> i]
  ELSE [line |-> i, column |-> 0]

\* usage-graph family: an optional <h1> followed by usages of distinct components
GraphContents ==
  {c \in {[items |-> h \o u, layout |-> "lines"] :
            h \in {<<>>, <<HeadingItem(1)>>},
            u \in {s \in SeqsUpTo({UseItem(q) : q \in GraphPaths}, MaxItems) :
                     \A i, j \in DOMAIN s : i # j => s[i] # s[j]}} :
     Len(c.items) <= MaxItems}

\* heading-merge family: any mix of headings and usages, in either layout
MergeContents ==
  {[items |-> s, layout |-> l] :
     s \in SeqsUpTo({HeadingItem(n) : n \in 1..MaxLevel} \cup {UseItem(q) : q \in MergePaths},
                    MaxItems),
     l \in {"inline", "lines"}}

\* capitalised-heading family: headings and at most one capitalised heading
\* that is an imported component, one element per line
TieContents ==
  {[items |-> s, layout |-> "lines"] :
     s \in {t \in SeqsUpTo({HeadingItem(n) : n \in 1..MaxLevel}
                            \cup {CapitalHeadingItem(n, q) : n \in 1..MaxLevel, q \in MergePaths},
                            MaxItems) :
              Cardinality({i \in DOMAIN t : t[i].k = "H"}) <= 1}}

TreeOptionSets ==
  {[crossComponentAnalysis |-> TRUE,  singleH1 |-> TRUE, enforceHeadingOrder |-> TRUE],
   [crossComponentAnalysis |-> FALSE, singleH1 |-> TRUE, enforceHeadingOrder |-> TRUE]}

(***************************************************************************)
(* ComponentAnalyzer.extractComponentInfo                                  *)
(***************************************************************************)
\* JSXElement visitor, heading branch: componentDef.headings in traversal order
RECURSIVE collectHeadings(_, _, _)
collectHeadings(content, filePath, i) ==
  IF i > Len(content.items) THEN <<>>
  ELSE LET it == content.items[i]
           loc == PosOf(content.layout, i)
           rest == collectHeadings(content, filePath, i + 1)
       IN IF it.k \in {"h", "H"}
          THEN <<[level |-> it.level, line |-> loc.line, column |-> loc.column,
                  filePath |-> filePath]>> \o rest
          ELSE rest

\* JSXElement visitor, component branch: one ComponentReference per name, every
\* further usage appended to its usageLocations
RECURSIVE collectUsages(_, _, _)
collectUsages(content, i, refs) ==
  IF i > Len(content.items) THEN refs
  ELSE LET it == content.items[i]
           loc == PosOf(content.layout, i)
       IN IF it.k \notin {"use", "H"} THEN collectUsages(content, i + 1, refs)
          ELSE IF \E r \in DOMAIN refs : refs[r].name = usedName(it)
          THEN LET r == CHOOSE x \in DOMAIN refs : refs[x].name = usedName(it)
               IN collectUsages(content, i + 1,
                    [refs EXCEPT ![r].usageLocations = Append(@, loc)])
          ELSE collectUsages(content, i + 1,
                 Append(refs, [name |-> usedName(it), path |-> it.path,
                               sourceLocation |-> loc, usageLocations |-> <<loc>>]))

headingPos(h) == [line |-> h.line, column |-> h.column]

\* local heading-order check of extractComponentInfo over the sorted headings
RECURSIVE localHeadingOrderIssues(_, _, _)
localHeadingOrderIssues(sortedHeadings, i, lastHeadingLevel) ==
  IF i > Len(sortedHeadings) THEN <<>>
  ELSE LET heading == sortedHeadings[i]
           rest == localHeadingOrderIssues(sortedHeadings, i + 1, heading.level)
       IN IF lastHeadingLevel # 0 /\ heading.level > lastHeadingLevel + 1
          THEN <<[line |-> heading.line, column |-> heading.column,
                  level |-> heading.level, after |-> lastHeadingLevel]>> \o rest
          ELSE rest

\* 'singleH1' entry of componentDef.issues: one synthetic '<h1>' result per local h1
h1Results(headings) ==
  SelectSeq(headings, LAMBDA h : h.level = 1)

extractComponentInfo(content, filePath, opts) ==
  LET headings == collectHeadings(content, filePath, 1)
  IN [name |-> filePath,
      filePath |-> filePath,
      headings |-> headings,
      usesComponents |-> collectUsages(content, 1, <<>>),
      issues |->
        [enforceHeadingOrder |->
           IF opts.enforceHeadingOrder
           THEN localHeadingOrderIssues(SortByPos(headings, headingPos), 1, 0)
           ELSE <<>>,
         singleH1 |->
           IF opts.singleH1 THEN h1Results(headings) ELSE <<>>]]

\* Map.has / Map.get on componentRegistry
registered(p) == p \in DOMAIN componentRegistry

\* component.issues.has(rule): an entry is set only together with a first result
hasIssue(c, rule) == c.issues[rule] # <<>>

(***************************************************************************)
(* ComponentAnalyzer: cross-component single <h1>                          *)
(***************************************************************************)
\* Array.from(componentRegistry.values()), in insertion order
allComponents == [i \in DOMAIN registryKeys |-> componentRegistry[registryKeys[i]]]

findEntryPoints ==
  LET imported == {r.path : r \in UNION {Range(componentRegistry[p].usesComponents) :
                                           p \in DOMAIN componentRegistry}} \ {NoPath}
  IN SelectSeq(allComponents, LAMBDA c : c.filePath \notin imported)

\* dfs of findComponentsWithRule: acc = [res, visited], threaded through the
\* forEach over usesComponents
RECURSIVE dfs(_, _, _), dfsRefs(_, _, _, _)
dfs(c, rule, acc) ==
  IF c.filePath \in acc.visited THEN acc
  ELSE dfsRefs(c.usesComponents, 1, rule,
               [res |-> IF hasIssue(c, rule) THEN Append(acc.res, c) ELSE acc.res,
                visited |-> acc.visited \cup {c.filePath}])
dfsRefs(refs, i, rule, acc) ==
  IF i > Len(refs) THEN acc
  ELSE dfsRefs(refs, i + 1, rule,
               IF refs[i].path # NoPath /\ registered(refs[i].path)
               THEN dfs(componentRegistry[refs[i].path], rule, acc)
               ELSE acc)

findComponentsWithRule(root, rule) ==
  dfs(root, rule, [res |-> <<>>, visited |-> {}]).res

\* findReferenceForComp returns a ComponentReference or null, or throws
\* RangeError when the chain of nested calls passes the engine's limit.
RefNull == [tag |-> "null"]
RefThrown == [tag |-> "RangeError"]
RefFound(ref) == [tag |-> "ref", ref |-> ref]

RECURSIVE findReferenceForComp(_, _, _), findNestedReference(_, _, _, _)
findReferenceForComp(root, targetPath, depth) ==
  IF depth > CallDepthLimit THEN RefThrown
  ELSE IF \E i \in DOMAIN root.usesComponents : root.usesComponents[i].path = targetPath
  THEN RefFound(root.usesComponents[CHOOSE i \in DOMAIN root.usesComponents :
         /\ root.usesComponents[i].path = targetPath
         /\ \A j \in 1..(i - 1) : root.usesComponents[j].path # targetPath])
  ELSE findNestedReference(root, targetPath, 1, depth)
findNestedReference(root, targetPath, i, depth) ==
  IF i > Len(root.usesComponents) THEN RefNull
  ELSE LET ref == root.usesComponents[i]
       IN IF ref.path # NoPath /\ registered(ref.path)
          THEN LET nested == findReferenceForComp(componentRegistry[ref.path],
                                                  targetPath, depth + 1)
               IN IF nested.tag = "RangeError" THEN RefThrown
                  ELSE IF nested.tag = "ref" THEN RefFound(ref)
                  ELSE findNestedReference(root, targetPath, i + 1, depth)
          ELSE findNestedReference(root, targetPath, i + 1, depth)

\* the result pushed for one later component of comps
crossH1Result(entry, comp) ==
  LET found == findReferenceForComp(entry, comp.filePath, 1)
  IN IF found.tag = "ref"
     THEN LET ref == found.ref
              location == IF ref.usageLocations # <<>> THEN ref.usageLocations[1]
                          ELSE ref.sourceLocation
          IN [filePath |-> entry.filePath, line |-> location.line,
              column |-> location.column,
              message |-> "Multiple <h1> tags: component brings an extra <h1>",
              component |-> comp.name]
     ELSE LET issue == comp.issues.singleH1[1]
          IN [filePath |-> comp.filePath, line |-> issue.line, column |-> issue.column,
              message |-> "Multiple <h1> across components",
              component |-> comp.name]

extraH1CompsFromFirst(comps) == comps

\* the later components of comps: for (let i = 1; i < comps.length; i++)
extraH1Comps(comps) == SubSeq(comps, 2, Len(comps))

crossH1ForEntry(entry) ==
  LET extra == extraH1Comps(findComponentsWithRule(entry, "singleH1"))
  IN [i \in DOMAIN extra |-> crossH1Result(entry, extra[i])]

RECURSIVE flatten(_)
flatten(ss) == IF ss = <<>> THEN <<>> ELSE Head(ss) \o flatten(Tail(ss))

\* results pushed by findCrossComponentH1Issues
findCrossComponentH1Issues ==
  LET entryPoints == findEntryPoints
  IN flatten([e \in DOMAIN entryPoints |-> crossH1ForEntry(entryPoints[e])])

\* whether a findReferenceForComp call made by findCrossComponentH1Issues throws
crossH1Throws ==
  LET entryPoints == findEntryPoints
  IN \E e \in DOMAIN entryPoints :
       \E comp \in Range(extraH1Comps(findComponentsWithRule(entryPoints[e], "singleH1"))) :
         findReferenceForComp(entryPoints[e], comp.filePath, 1).tag = "RangeError"

(***************************************************************************)
(* ComponentAnalyzer: cross-component heading order                        *)
(***************************************************************************)
\* usageLocation: null of a component's own headings
NoUsage == [isNull |-> TRUE, filePath |-> NoPath, line |-> 0, column |-> 0]
UsageAt(filePath, loc) ==
  [isNull |-> FALSE, filePath |-> filePath, line |-> loc.line, column |-> loc.column]

\* ref.usageLocations[0] || ref.sourceLocation
firstUsage(ref) ==
  IF ref.usageLocations # <<>> THEN ref.usageLocations[1] ELSE ref.sourceLocation

\* the merge's "local heading comes first" test: strictly earlier position
localComesFirst(heading, childLoc) ==
  \/ heading.line < childLoc.line
  \/ (heading.line = childLoc.line /\ heading.column < childLoc.column)

\* processingComponentStack is passed down as `stack`: every add in the code is
\* paired with a delete after the nested call returns.
RECURSIVE collectHeadingsInDocumentOrder(_, _), mergeHeadings(_, _, _, _, _, _)
collectHeadingsInDocumentOrder(component, stack) ==
  LET sorted == SortByPos(component.headings, headingPos)
      localHeadings == [i \in DOMAIN sorted |-> [heading |-> sorted[i], usageLocation |-> NoUsage]]
      childComponents ==
        SortByPos(SelectSeq(component.usesComponents,
                            LAMBDA ref : ref.path # NoPath /\ registered(ref.path)),
                  firstUsage)
  IN mergeHeadings(component, localHeadings, childComponents, 1, 1, stack)
mergeHeadings(component, localHeadings, childComponents, headingIndex, childIndex, stack) ==
  IF headingIndex > Len(localHeadings) /\ childIndex > Len(childComponents) THEN <<>>
  ELSE IF childIndex > Len(childComponents)
          \/ (headingIndex <= Len(localHeadings)
              /\ localComesFirst(localHeadings[headingIndex].heading,
                                 firstUsage(childComponents[childIndex])))
  THEN <<localHeadings[headingIndex]>> \o
       mergeHeadings(component, localHeadings, childComponents,
                     headingIndex + 1, childIndex, stack)
  ELSE LET childRef == childComponents[childIndex]
           usageLocation == UsageAt(component.filePath, firstUsage(childRef))
           expanded ==
             IF childRef.path # NoPath /\ registered(childRef.path) /\ childRef.path \notin stack
             THEN LET sub == collectHeadingsInDocumentOrder(
                               componentRegistry[childRef.path], stack \cup {childRef.path})
                  IN [i \in DOMAIN sub |->
                        [heading |-> sub[i].heading,
                         usageLocation |-> IF sub[i].usageLocation.isNull THEN usageLocation
                                           ELSE sub[i].usageLocation]]
             ELSE <<>>
       IN expanded \o
          mergeHeadings(component, localHeadings, childComponents,
                        headingIndex, childIndex + 1, stack)

\* the position analyzeHeadingHierarchy reports for a skipped heading:
\* usageLocation?.line || heading.line, and the same for filePath and column
skipFilePath(h) == IF h.usageLocation.isNull THEN h.heading.filePath ELSE h.usageLocation.filePath
skipLine(h) == IF h.usageLocation.isNull THEN h.heading.line
               ELSE JsOr(h.usageLocation.line, h.heading.line)
skipColumn(h) == IF h.usageLocation.isNull THEN h.heading.column
                 ELSE JsOr(h.usageLocation.column, h.heading.column)

RECURSIVE headingSkips(_, _, _)
headingSkips(allHeadings, i, lastLevel) ==
  IF i > Len(allHeadings) THEN <<>>
  ELSE LET h == allHeadings[i]
           rest == headingSkips(allHeadings, i + 1, h.heading.level)
       IN IF lastLevel > 0 /\ h.heading.level > lastLevel + 1
          THEN <<[filePath |-> skipFilePath(h), line |-> skipLine(h),
                  column |-> skipColumn(h),
                  message |-> "Cross-component heading level skipped",
                  level |-> h.heading.level, after |-> lastLevel]>> \o rest
          ELSE rest

\* results pushed for one entry point; processingComponentStack was cleared
analyzeHeadingHierarchy(component) ==
  headingSkips(collectHeadingsInDocumentOrder(component, {component.filePath}), 1, 0)

findCrossComponentHeadingOrderIssues ==
  LET entryPoints == findEntryPoints
  IN flatten([e \in DOMAIN entryPoints |-> analyzeHeadingHierarchy(entryPoints[e])])

(***************************************************************************)
(* ComponentAnalyzer: operations                                           *)
(***************************************************************************)
\* componentRegistry.set(filePath, componentDef) at the end of extractComponentInfo
analyzeFile(p, content) ==
  /\ componentRegistry' =
       [q \in DOMAIN componentRegistry \cup {p} |->
          IF q = p THEN extractComponentInfo(content, p, treeOptions)
          ELSE componentRegistry[q]]
  /\ registryKeys' = IF registered(p) THEN registryKeys ELSE Append(registryKeys, p)
  /\ treeStatus' = "none"
  /\ treeResults' = <<>>
  /\ UNCHANGED <<treeOptions, runVars, tokVars, lintVars, batchVars, remapVars, resolverVars>>

\* getRuleType(msg), lines 218-229, for the messages of the two heading rules
\* of the linter and of requireSectionHeading: '<h1>' is looked for first, and
\* 'Heading level skipped: <h3> after <h1>' and '<section> missing heading
\* (<h1>-<h6>)' contain it
getRuleType(msg) ==
  IF msg[1] = "Only one <h1> allowed per document" THEN "singleH1"
  ELSE IF msg[1] = "<section> missing heading (<h1>-<h6>)" THEN "singleH1"
  ELSE IF msg[1] = "Heading level skipped" /\ "h1" \in {msg[2], msg[3]} THEN "singleH1"
  ELSE "enforceHeadingOrder"

\* the loop of registerComponent: component.issues.get(rule).push(issue)
RECURSIVE pushIssues(_, _, _)
pushIssues(component, issues, i) ==
  IF i > Len(issues) THEN component
  ELSE pushIssues([component EXCEPT !.issues[getRuleType(issues[i].message)] = Append(@, issues[i])],
                  issues, i + 1)

\* a caller that keeps the object analyzeFile returns
analyzeFileAndKeep(p, content) ==
  /\ analyzeFile(p, content)
  /\ held' = Append(held, [component |-> extractComponentInfo(content, p, treeOptions),
                           content |-> content])

\* registerComponent(component, issues) on a kept object: the object itself
\* is changed and becomes the registry entry of its path
registerComponent(i, issues) ==
  LET component == pushIssues(held[i].component, issues, 1)
      p == component.filePath
  IN /\ held' = [held EXCEPT ![i].component = component]
     /\ componentRegistry' =
          [q \in DOMAIN componentRegistry \cup {p} |->
             IF q = p THEN component ELSE componentRegistry[q]]
     /\ registryKeys' = IF registered(p) THEN registryKeys ELSE Append(registryKeys, p)
     /\ treeStatus' = "none"
     /\ treeResults' = <<>>
     /\ UNCHANGED <<treeOptions, runVars, tokVars, lintVars, batchVars, remapVars, resolverVars>>

analyzeComponentTree ==
  /\ treeStatus = "none"
  /\ IF ~treeOptions.crossComponentAnalysis
     THEN treeStatus' = "done" /\ treeResults' = <<>>
     ELSE IF treeOptions.singleH1 /\ crossH1Throws
     THEN treeStatus' = "RangeError" /\ treeResults' = <<>>
     ELSE /\ treeStatus' = "done"
          /\ treeResults' =
               (IF treeOptions.singleH1 THEN findCrossComponentH1Issues ELSE <<>>)
               \o (IF treeOptions.enforceHeadingOrder
                   THEN findCrossComponentHeadingOrderIssues ELSE <<>>)
  /\ UNCHANGED <<componentRegistry, registryKeys, treeOptions, held, runVars, tokVars, lintVars, batchVars, remapVars, resolverVars>>

(***************************************************************************)
(* extension.ts: queued workspace scans and file lint runs                 *)
(***************************************************************************)
NumFiles == 2        \* files of the workspace
MaxRuns  == 3        \* lint runs started in one behaviour (globalRunId never passes it)
MaxDiags == 2        \* diagnostics of one file

Files == 1..NumFiles

\* toDiagnostics(results): one Diagnostic per result, in order; a diagnostic is
\* identified by the fields equalDiagnostics compares.
DiagLists == {[i \in 1..n |-> i] : n \in 0..MaxDiags}

\* docEtag(doc): the open document's version, or null when the file is not open
Etags == {"null", "v1"}

\* what buildRemappedResults(await lintFiles(...)) can be: result lists for any
\* set of files (lintFiles is the external zemdomu core; its rejection is caught
\* and gives the empty map)
RemappedMaps == UNION {[S -> DiagLists] : S \in SUBSET Files}

\* an entry of the diagnostics collection / of diagCache, or its absence
NoDiags == [present |-> FALSE, diags |-> <<>>]
Published(diags) == [present |-> TRUE, diags |-> diags]
NoCache == [present |-> FALSE, etag |-> "null", diags |-> <<>>]
Cached(etag, diags) == [present |-> TRUE, etag |-> etag, diags |-> diags]

\* equalDiagnostics(a, b)
equalDiagnostics(a, b) ==
  /\ Len(a) = Len(b)
  /\ \A i \in 1..Len(a) : a[i] = b[i]

cacheHitWhenCached(fp, diags) == diagCache[fp].present

\* applyDiagnosticsCached takes its first branch: the cached list equals the new one
cacheHit(fp, diags) == diagCache[fp].present /\ equalDiagnostics(diagCache[fp].diags, diags)

\* an apply that publishes and caches but never tells the issue tracker
applyAllUncounted(remapped, etags) ==
  /\ diagnostics' = [fp \in Files |->
       IF fp \in DOMAIN remapped /\ ~cacheHit(fp, remapped[fp])
       THEN Published(remapped[fp]) ELSE diagnostics[fp]]
  /\ diagCache' = [fp \in Files |->
       IF fp \notin DOMAIN remapped THEN diagCache[fp]
       ELSE IF cacheHit(fp, remapped[fp]) THEN Cached(etags[fp], diagCache[fp].diags)
       ELSE Cached(etags[fp], remapped[fp])]
  /\ issueCounts' = issueCounts

\* applyDiagnosticsCached for every (fp, results) of remapped, in one pass; the
\* files of remapped are distinct, so the passes do not touch each other.
\* issueCounts: IssueTracker.updateFile keeps an entry only for a count > 0
\* (0 = no entry).
applyAll(remapped, etags) ==
  /\ diagnostics' = [fp \in Files |->
       IF fp \in DOMAIN remapped /\ ~cacheHit(fp, remapped[fp])
       THEN Published(remapped[fp]) ELSE diagnostics[fp]]
  /\ diagCache' = [fp \in Files |->
       IF fp \notin DOMAIN remapped THEN diagCache[fp]
       ELSE IF cacheHit(fp, remapped[fp]) THEN Cached(etags[fp], diagCache[fp].diags)
       ELSE Cached(etags[fp], remapped[fp])]
  /\ issueCounts' = [fp \in Files |->
       IF fp \in DOMAIN remapped /\ ~cacheHit(fp, remapped[fp])
       THEN Len(remapped[fp]) ELSE issueCounts[fp]]

applyWithoutDelete(remapped, etags) == applyAll(remapped, etags)

\* the workspace scan's apply: delete the files of diagCache the scan did not
\* touch, then applyDiagnosticsCached for every file of remapped
applyWorkspace(remapped, etags) ==
  LET stale(fp) == diagCache[fp].present /\ fp \notin DOMAIN remapped
  IN /\ diagnostics' = [fp \in Files |->
          IF stale(fp) THEN NoDiags
          ELSE IF fp \in DOMAIN remapped /\ ~cacheHit(fp, remapped[fp])
          THEN Published(remapped[fp])
          ELSE diagnostics[fp]]
     /\ diagCache' = [fp \in Files |->
          IF stale(fp) THEN NoCache
          ELSE IF fp \notin DOMAIN remapped THEN diagCache[fp]
          ELSE IF cacheHit(fp, remapped[fp]) THEN Cached(etags[fp], diagCache[fp].diags)
          ELSE Cached(etags[fp], remapped[fp])]
     /\ issueCounts' = [fp \in Files |->
          IF stale(fp) THEN 0
          ELSE IF fp \in DOMAIN remapped /\ ~cacheHit(fp, remapped[fp])
          THEN Len(remapped[fp])
          ELSE issueCounts[fp]]

\* if (runId !== globalRunId) return;  -- the guard after every await of a run
isStaleNever(runId) == FALSE

isStale(runId) == runId # globalRunId

\* const runId = ++globalRunId, and the run is suspended at its first await
startRun(kind, entries) ==
  /\ globalRunId + (IF workspaceQueued THEN 1 ELSE 0) < MaxRuns
  /\ globalRunId' = globalRunId + 1
  /\ runs' = Append(runs, [kind |-> kind, entries |-> entries, remapped |-> <<>>,
                           pc |-> IF kind = "workspace" THEN "enumerating" ELSE "computing"])

queueWorkspaceOverlapping ==
  /\ startRun("workspace", {})
  /\ runningWorkspace' = TRUE
  /\ UNCHANGED workspaceQueued

\* queueWorkspace(lintWorkspaceAtomic)
queueWorkspace ==
  IF runningWorkspace
  THEN /\ workspaceQueued \/ globalRunId < MaxRuns
       /\ workspaceQueued' = TRUE
       /\ UNCHANGED <<globalRunId, runs, runningWorkspace>>
  ELSE /\ startRun("workspace", {})
       /\ runningWorkspace' = TRUE
       /\ UNCHANGED workspaceQueued

\* a configuration change or the activation timer
scheduleWorkspaceLint ==
  /\ queueWorkspace
  /\ UNCHANGED <<diagnostics, diagCache, issueCounts, workspaceLinted, command, treeVars, tokVars, lintVars, batchVars, remapVars, resolverVars>>

\* onDidSaveTextDocument / the onType timer before the first workspace scan
saveBeforeFirstScan ==
  /\ ~workspaceLinted
  /\ queueWorkspace
  /\ UNCHANGED <<diagnostics, diagCache, issueCounts, workspaceLinted, command, treeVars, tokVars, lintVars, batchVars, remapVars, resolverVars>>

\* onDidSaveTextDocument / the onType timer afterwards: lintSingle(doc)
lintEntries(fp) ==
  /\ workspaceLinted
  /\ startRun("entries", {fp})
  /\ UNCHANGED <<diagnostics, diagCache, issueCounts, runningWorkspace, workspaceQueued,
                 workspaceLinted, command, treeVars, tokVars, lintVars, batchVars, remapVars, resolverVars>>

\* lintWorkspaceAtomic resumes after findFiles
workspaceEnumerated(r) ==
  /\ runs[r].kind = "workspace" /\ runs[r].pc = "enumerating"
  /\ runs' = [runs EXCEPT ![r].pc = IF isStale(r) THEN "discarded" ELSE "computing"]
  /\ UNCHANGED <<globalRunId, diagnostics, diagCache, issueCounts, runningWorkspace,
                 workspaceQueued, workspaceLinted, command, treeVars, tokVars, lintVars, batchVars, remapVars, resolverVars>>

\* lintWorkspaceAtomic resumes after lintFiles
workspaceComputed(r) ==
  /\ runs[r].kind = "workspace" /\ runs[r].pc = "computing"
  /\ IF isStale(r)
     THEN /\ runs' = [runs EXCEPT ![r].pc = "discarded"]
          /\ UNCHANGED <<diagnostics, diagCache, issueCounts, workspaceLinted>>
     ELSE /\ \E remapped \in RemappedMaps : \E etags \in [DOMAIN remapped -> Etags] :
               /\ applyWorkspace(remapped, etags)
               /\ runs' = [runs EXCEPT ![r].pc = "complete", ![r].remapped = remapped]
          /\ workspaceLinted' = TRUE
  /\ UNCHANGED <<globalRunId, runningWorkspace, workspaceQueued, command, treeVars, tokVars, lintVars, batchVars, remapVars, resolverVars>>

\* lintEntries resumes after lintFiles
entriesComputed(r) ==
  /\ runs[r].kind = "entries" /\ runs[r].pc = "computing"
  /\ IF isStale(r)
     THEN /\ runs' = [runs EXCEPT ![r].pc = "discarded"]
          /\ UNCHANGED <<diagnostics, diagCache, issueCounts>>
     ELSE /\ \E remapped \in RemappedMaps : \E etags \in [DOMAIN remapped -> Etags] :
               /\ applyAll(remapped, etags)
               /\ runs' = [runs EXCEPT ![r].pc = "complete", ![r].remapped = remapped]
  /\ UNCHANGED <<globalRunId, runningWorkspace, workspaceQueued, workspaceLinted,
                 command, treeVars, tokVars, lintVars, batchVars, remapVars, resolverVars>>

\* the finally block of queueWorkspace's wrapper, once its run has returned:
\* a queued request starts the one follow-up run (lines 67-72)
workspaceSettled(r) ==
  /\ runs[r].kind = "workspace" /\ runs[r].pc \in {"discarded", "complete"}
  /\ LET settled == [runs EXCEPT ![r].pc = IF @ = "complete" THEN "settled" ELSE "dropped"]
     IN IF workspaceQueued
        THEN /\ globalRunId < MaxRuns
             /\ workspaceQueued' = FALSE
             /\ globalRunId' = globalRunId + 1
             /\ runs' = Append(settled, [kind |-> "workspace", entries |-> {}, remapped |-> <<>>,
                                         pc |-> "enumerating"])
             /\ runningWorkspace' = TRUE
        ELSE /\ runs' = settled
             /\ runningWorkspace' = FALSE
             /\ UNCHANGED <<globalRunId, workspaceQueued>>
  /\ UNCHANGED <<diagnostics, diagCache, issueCounts, workspaceLinted, command, treeVars, tokVars, lintVars, batchVars, remapVars, resolverVars>>

\* the zemdomu.lintWorkspace command up to its first await (lines 1836-1856)
Idle == [pc |-> "idle", since |-> 0]
lintCommand ==
  /\ command.pc # "waiting"
  /\ queueWorkspace
  /\ command' = [pc |-> "waiting", since |-> globalRunId]
  /\ UNCHANGED <<diagnostics, diagCache, issueCounts, workspaceLinted, treeVars, tokVars, lintVars, batchVars, remapVars, resolverVars>>

\* while (runningWorkspace) await runningWorkspace; return "Scan complete"
\* (lines 1854-1861)
lintCommandResolved ==
  /\ command.pc = "waiting" /\ ~runningWorkspace
  /\ command' = [command EXCEPT !.pc = "resolved"]
  /\ UNCHANGED <<globalRunId, runs, diagnostics, diagCache, issueCounts, runningWorkspace,
                 workspaceQueued, workspaceLinted, treeVars, tokVars, lintVars, batchVars, remapVars, resolverVars>>

(***************************************************************************)
(* The workspace scan that drives its own ComponentAnalyzer                *)
(* (lintWorkspace with a first pass over the JSX/TSX files and a second    *)
(* pass of cross-component analysis).  componentAnalyzer is a variable of  *)
(* the extension that every call of lintWorkspace sets to a new object;    *)
(* the callbacks of the first pass read it when they reach their calls.    *)
(***************************************************************************)
NumBatchFiles == 2    \* JSX/TSX files of the workspace
MaxScans      == 2    \* calls of lintWorkspace
BatchFiles == 1..NumBatchFiles
NoAnalyzer == 0

\* one callback of jsxFiles.map: waiting for openTextDocument, inside
\* analyzeFile of the analyzer object it read, or finished
Opening == [pc |-> "opening", analyzer |-> NoAnalyzer]
Analyzing(a) == [pc |-> "analyzing", analyzer |-> a]
Finished == [pc |-> "finished", analyzer |-> NoAnalyzer]

\* lintWorkspace() up to its first await: diagnostics.clear(), a new
\* ComponentAnalyzer, findFiles
lintWorkspace ==
  /\ Len(batch.scans) < MaxScans
  /\ batch' = [batch EXCEPT
        !.componentAnalyzer = Len(batch.registries) + 1,
        !.registries = Append(@, {}),
        !.scans = Append(@, [pc |-> "findFiles", files |-> {}, callbacks |-> <<>>,
                             registryRead |-> {}])]
  /\ UNCHANGED <<treeVars, runVars, tokVars, lintVars, remapVars, resolverVars>>

\* findFiles resolves: Promise.all(jsxFiles.map(...)) starts every callback,
\* each up to its await of openTextDocument
firstPassStarted(s) ==
  /\ batch.scans[s].pc = "findFiles"
  /\ batch' = [batch EXCEPT !.scans[s].pc = "firstPass",
                            !.scans[s].files = BatchFiles,
                            !.scans[s].callbacks = [f \in BatchFiles |-> Opening]]
  /\ UNCHANGED <<treeVars, runVars, tokVars, lintVars, remapVars, resolverVars>>

\* a callback resumes with the text: lintHtml, then componentAnalyzer!.analyzeFile(uri),
\* which awaits openTextDocument inside the analyzer object read here
analyzeFileCalled(s, f) ==
  /\ batch.scans[s].pc = "firstPass" /\ batch.scans[s].callbacks[f] = Opening
  /\ batch' = [batch EXCEPT !.scans[s].callbacks[f] = Analyzing(batch.componentAnalyzer)]
  /\ UNCHANGED <<treeVars, runVars, tokVars, lintVars, remapVars, resolverVars>>

\* analyzeFile resumes: extractComponentInfo registers the file in its own
\* analyzer object; the callback then calls componentAnalyzer!.registerComponent
\* on the object the variable holds now, and sets the file's diagnostics
componentRegistered(s, f) ==
  /\ batch.scans[s].pc = "firstPass" /\ batch.scans[s].callbacks[f].pc = "analyzing"
  /\ LET a == batch.scans[s].callbacks[f].analyzer
         extracted == [batch.registries EXCEPT ![a] = @ \cup {f}]
     IN batch' = [batch EXCEPT
          !.registries = [extracted EXCEPT ![batch.componentAnalyzer] = @ \cup {f}],
          !.scans[s].callbacks[f] = Finished]
  /\ UNCHANGED <<treeVars, runVars, tokVars, lintVars, remapVars, resolverVars>>

\* Promise.all settles when every callback has returned
callbacksSettled(s) == \A f \in batch.scans[s].files : batch.scans[s].callbacks[f] = Finished

\* the second pass: componentAnalyzer.analyzeComponentTree() reads the
\* registry of the object the variable holds now
secondPass(s) ==
  /\ batch.scans[s].pc = "firstPass" /\ callbacksSettled(s)
  /\ batch' = [batch EXCEPT !.scans[s].pc = "secondPass",
                            !.scans[s].registryRead = batch.registries[batch.componentAnalyzer]]
  /\ UNCHANGED <<treeVars, runVars, tokVars, lintVars, remapVars, resolverVars>>

\* activate(): no analyzer yet, no scan started
BatchInit == batch = [componentAnalyzer |-> NoAnalyzer, registries |-> <<>>, scans |-> <<>>]

(***************************************************************************)
(* cross-remap.ts: remapCrossComponent(raw, readFileSync)                  *)
(*                                                                         *)
(* A path is its directory, base name and extension.  A message is the     *)
(* sequence of its words; a quoted name is one word.  A source text is the *)
(* sequence of its characters, with the three characters of "<h1" as one.  *)
(***************************************************************************)
MaxRemapResults == 2    \* results in a raw map

Path(dir, base, ext) == [dir |-> dir, base |-> base, ext |-> ext]
RemapPaths ==
  {Path("src", "App", ".tsx"), Path("src", "CompA", ".tsx"), Path("lib", "CompA", ".jsx")}

\* path.basename(fp, path.extname(fp))
basename(fp) == fp.base

QuotedNames == {"'CompA'", "'App'"}
unquote(word) == IF word = "'CompA'" THEN "CompA" ELSE "App"

\* /component/i.test(message)
testComponent(message) ==
  \E i \in DOMAIN message :
    message[i] \in {"component", "components", "Cross-component", "cross-component"}

\* /cross-component/i.test(message)
testCrossComponent(message) ==
  \E i \in DOMAIN message : message[i] \in {"Cross-component", "cross-component"}

\* message.match(/component '([^']+)'/i): the places where the pattern matches
matchesName(message) ==
  {i \in DOMAIN message :
     /\ message[i] \in {"component", "Cross-component", "cross-component"}
     /\ i < Len(message) /\ message[i + 1] \in QuotedNames}

\* m?.[1] of the first match; "" when there is none
compNameOf(message) ==
  IF matchesName(message) = {} THEN ""
  ELSE LET i == CHOOSE k \in matchesName(message) : \A l \in matchesName(message) : k <= l
       IN unquote(message[i + 1])

RECURSIVE countPos(_, _, _, _, _)
\* findFirstTagPos(src, "h1"), lines 126-144: the characters before the tag
\* are counted into a line and a column
countPos(src, i, idx, line, col) ==
  IF i >= idx THEN [line |-> line, col |-> col]
  ELSE IF src[i] = "\n" THEN countPos(src, i + 1, idx, line + 1, 0)
  ELSE countPos(src, i + 1, idx, line, col + 1)

findFirstTagPos(src) ==
  IF \A i \in DOMAIN src : src[i] # "<h1" THEN [line |-> 0, col |-> 0]
  ELSE LET idx == CHOOSE i \in DOMAIN src : src[i] = "<h1" /\ \A k \in 1..(i - 1) : src[k] # "<h1"
       IN countPos(src, 1, idx, 0, 0)

\* a Map as the sequence of its entries, in insertion order
mapHas(map, key) == \E i \in DOMAIN map : map[i].key = key
mapGet(map, key) ==
  LET i == CHOOSE k \in DOMAIN map : map[k].key = key IN map[i].value
\* map.get(key) ?? []
mapGetOrEmpty(map, key) == IF mapHas(map, key) THEN mapGet(map, key) ELSE <<>>
mapSet(map, key, value) ==
  IF mapHas(map, key)
  THEN [i \in DOMAIN map |-> IF map[i].key = key THEN [key |-> key, value |-> value] ELSE map[i]]
  ELSE Append(map, [key |-> key, value |-> value])

\* nameIndex.get(compName), lines 159-165: the keys of raw with that base name
candidatesOf(raw, compName) ==
  SelectSeq([i \in DOMAIN raw |-> raw[i].key], LAMBDA fp : basename(fp) = compName)

\* lines 169-172
isCross(r) ==
  \/ r.rule = "singleH1" /\ testComponent(r.message)
  \/ r.rule = "enforceHeadingOrder" /\ testCrossComponent(r.message)

\* lines 174-178, 182-187, 190-195: the result stays under its entry file
keepUnderEntry(out, entryPath, r) ==
  [out EXCEPT !.perFile = mapSet(@, entryPath, Append(mapGetOrEmpty(@, entryPath), r))]

\* lines 197-222: the result goes to the component file, with the position
\* of the first <h1 of that file, and the entry file gets an occurrence
moveToComponent(out, entryPath, r, compName, componentPath, src) ==
  LET pos == findFirstTagPos(src)
      adjusted == [rule |-> r.rule, message |-> r.message, filePath |-> componentPath,
                   line |-> pos.line, column |-> pos.col]
      occ == [componentPath |-> componentPath, componentName |-> compName,
              line |-> pos.line, column |-> pos.col]
  IN [perFile |-> mapSet(out.perFile, componentPath,
                         Append(mapGetOrEmpty(out.perFile, componentPath), adjusted)),
      summaries |-> mapSet(out.summaries, entryPath,
                           Append(mapGetOrEmpty(out.summaries, entryPath), occ))]

\* a result that names a component is moved to the first candidate, however
\* many there are
remapResultToFirstCandidate(raw, readFileSync, out, entryPath, r) ==
  IF ~isCross(r) THEN keepUnderEntry(out, entryPath, r)
  ELSE LET compName == compNameOf(r.message)
           candidates == candidatesOf(raw, compName)
       IN IF compName = "" THEN keepUnderEntry(out, entryPath, r)
          ELSE IF Len(candidates) = 0 THEN keepUnderEntry(out, entryPath, r)
          ELSE moveToComponent(out, entryPath, r, compName, candidates[1],
                               readFileSync[candidates[1]])

\* the body of the inner loop, lines 168-222, for one result of one entry
remapResult(raw, readFileSync, out, entryPath, r) ==
  IF ~isCross(r) THEN keepUnderEntry(out, entryPath, r)
  ELSE LET compName == compNameOf(r.message)
           candidates == candidatesOf(raw, compName)
       IN IF compName = "" THEN keepUnderEntry(out, entryPath, r)
          ELSE IF Len(candidates) # 1 THEN keepUnderEntry(out, entryPath, r)
          ELSE moveToComponent(out, entryPath, r, compName, candidates[1],
                               readFileSync[candidates[1]])

\* the two loops of lines 167-223, from result j of entry i on
RECURSIVE remapFrom(_, _, _, _, _)
remapFrom(raw, readFileSync, out, i, j) ==
  IF i > Len(raw) THEN out
  ELSE IF j > Len(raw[i].value) THEN remapFrom(raw, readFileSync, out, i + 1, 1)
  ELSE remapFrom(raw, readFileSync,
                 remapResult(raw, readFileSync, out, raw[i].key, raw[i].value[j]), i, j + 1)

\* remapCrossComponent(raw, readFileSync), lines 151-227
remapCrossComponent ==
  /\ remap.status = "called"
  /\ LET out == remapFrom(remap.raw, remap.readFileSync,
                          [perFile |-> <<>>, summaries |-> <<>>], 1, 1)
     IN remap' = [remap EXCEPT !.status = "returned", !.perFile = out.perFile,
                               !.summaries = out.summaries]
  /\ UNCHANGED <<treeVars, runVars, tokVars, lintVars, batchVars, resolverVars>>

\* a call with its arguments
remapCalled(raw, readFileSync) ==
  [status |-> "called", raw |-> raw, readFileSync |-> readFileSync,
   perFile |-> <<>>, summaries |-> <<>>]

\* no call of remapCrossComponent
RemapInit == remap = [remapCalled(<<>>, <<>>) EXCEPT !.status = "none"]

(***************************************************************************)
(* ComponentPathResolver                                                   *)
(***************************************************************************)
MaxResolves == 3      \* calls of resolve

\* Paths below the directory of the importing file.  A path is a file name
\* without extension, an extension ("" for none) and whether it is the index
\* file of the directory of that name: /src/Button.tsx, /src/Button/index.tsx.
FilePath(name, ext, index) == [name |-> name, ext |-> ext, index |-> index]
\* null
NoFile == FilePath("", "", FALSE)

ResolverNames == {"Button", "button"}
toLowerCase(name) == IF name = "Button" THEN "button" ELSE name

\* relative imports './<name><ext>' of a file of the directory
ImportPaths == {[name |-> n, ext |-> e] : n \in ResolverNames, e \in {"", ".jsx", ".tsx"}}
\* the files that may exist
FileUniverse ==
  {FilePath(n, e, FALSE) : n \in ResolverNames, e \in {".tsx", ".jsx"}}
    \cup {FilePath("Button", ".tsx", TRUE)}

\* path.resolve(path.dirname(currentPath), importPath)
resolveBase(importPath) == FilePath(importPath.name, importPath.ext, FALSE)

\* normalizeKey, lines 10-16: the extension is stripped, the rest lowercased
normalizeKey(p) == [name |-> toLowerCase(p.name), ext |-> "", index |-> p.index]

exts == <<".tsx", ".jsx", ".ts", ".js">>

\* fileExists, lines 18-30; st = [statCache, stats], stats the paths handed to
\* vscode.workspace.fs.stat during the call of resolve
fileExists(st, p, fs) ==
  IF mapHas(st.statCache, p) THEN [st |-> st, ok |-> mapGet(st.statCache, p)]
  ELSE [st |-> [statCache |-> mapSet(st.statCache, p, p \in fs), stats |-> Append(st.stats, p)],
        ok |-> p \in fs]

\* for (const ext of exts) { if (await this.fileExists(candidate)) { result = candidate; break; } }
RECURSIVE firstExisting(_, _, _, _)
firstExisting(st, candidates, i, fs) ==
  IF i > Len(candidates) THEN [st |-> st, result |-> NoFile]
  ELSE LET r == fileExists(st, candidates[i], fs)
       IN IF r.ok THEN [st |-> r.st, result |-> candidates[i]]
          ELSE firstExisting(r.st, candidates, i + 1, fs)

\* the relative branch of resolve, lines 44-61
resolveRelative(st, importPath, fs) ==
  LET base == resolveBase(importPath)
  IN IF base.ext # ""
     THEN LET r == fileExists(st, base, fs)
          IN [st |-> r.st, result |-> IF r.ok THEN base ELSE NoFile]
     ELSE LET a == firstExisting(st, [i \in DOMAIN exts |-> FilePath(base.name, exts[i], FALSE)],
                                 1, fs)
              b == IF a.result = NoFile
                   THEN firstExisting(a.st,
                          [i \in DOMAIN exts |-> FilePath(base.name, exts[i], TRUE)], 1, fs)
                   ELSE a
          IN IF b.result = NoFile THEN [st |-> b.st, result |-> base] ELSE b

\* a resolve that keeps no miss: neither unresolved, nor a null in resolveCache,
\* nor a false in statCache is looked up
resolveForgettingMisses(importPath) ==
  /\ Len(resolver.log) < MaxResolves
  /\ LET key == normalizeKey(resolveBase(importPath))
         st0 == [statCache |-> SelectSeq(resolver.statCache, LAMBDA e : e.value),
                 stats |-> <<>>]
         cached == mapHas(resolver.resolveCache, key)
                     /\ mapGet(resolver.resolveCache, key) # NoFile
         r == IF cached THEN [st |-> st0, result |-> mapGet(resolver.resolveCache, key)]
              ELSE resolveRelative(st0, importPath, resolver.fs)
     IN resolver' = [resolver EXCEPT
          !.statCache = r.st.statCache,
          !.resolveCache = IF ~cached THEN mapSet(@, key, r.result) ELSE @,
          !.log = Append(@, [importPath |-> importPath, result |-> r.result,
                             stats |-> r.st.stats, fs |-> resolver.fs])]
  /\ UNCHANGED <<treeVars, runVars, tokVars, lintVars, batchVars, remapVars>>

\* resolve(importPath, currentPath), lines 32-116, for a relative import
resolve(importPath) ==
  /\ Len(resolver.log) < MaxResolves
  /\ LET key == normalizeKey(resolveBase(importPath))
         st0 == [statCache |-> resolver.statCache, stats |-> <<>>]
         unresolved == key \in resolver.unresolved
         cached == mapHas(resolver.resolveCache, key)
         r == IF unresolved THEN [st |-> st0, result |-> NoFile]
              ELSE IF cached THEN [st |-> st0, result |-> mapGet(resolver.resolveCache, key)]
              ELSE resolveRelative(st0, importPath, resolver.fs)
         stored == ~unresolved /\ ~cached
     IN resolver' = [resolver EXCEPT
          !.statCache = r.st.statCache,
          !.resolveCache = IF stored THEN mapSet(@, key, r.result) ELSE @,
          !.unresolved = IF stored /\ r.result = NoFile THEN @ \cup {key} ELSE @,
          !.log = Append(@, [importPath |-> importPath, result |-> r.result,
                             stats |-> r.st.stats, fs |-> resolver.fs])]
  /\ UNCHANGED <<treeVars, runVars, tokVars, lintVars, batchVars, remapVars>>

\* a file of the directory is created by the user
fileCreated(f) ==
  /\ f \notin resolver.fs
  /\ resolver' = [resolver EXCEPT !.fs = @ \cup {f}]
  /\ UNCHANGED <<treeVars, runVars, tokVars, lintVars, batchVars, remapVars>>

\* the static caches after module load, over the files `fs`
resolverOver(fs) ==
  [resolveCache |-> <<>>, statCache |-> <<>>, unresolved |-> {}, fs |-> fs, log |-> <<>>]
ResolverInit == resolver = resolverOver({})

\* activate(): nothing published, no run started
RunInit ==
  /\ globalRunId = 0
  /\ runs = <<>>
  /\ diagnostics = [fp \in Files |-> NoDiags]
  /\ diagCache = [fp \in Files |-> NoCache]
  /\ issueCounts = [fp \in Files |-> 0]
  /\ runningWorkspace = FALSE
  /\ workspaceQueued = FALSE
  /\ workspaceLinted = FALSE
  /\ command = Idle

(***************************************************************************)
(* simpleHtmlParser: tokenize and parse                                    *)
(***************************************************************************)
MaxHtmlLen == 5      \* characters of the input text

\* one representative per class of character the tokenizer's patterns tell apart:
\* "a" a letter or digit (\w), "-" (comment marker and tag-name character),
\* " " white space, "!" any other character
Chars == {"<", ">", "/", "!", "-", "a", " "}
NameChars == {"a", "-"}

HtmlTexts == SeqsUpTo(Chars, MaxHtmlLen)

\* html.startsWith(pat, i); positions are 1-based here
startsWithAt(h, pat, i) ==
  /\ i + Len(pat) - 1 <= Len(h)
  /\ \A k \in 1..Len(pat) : h[i + k - 1] = pat[k]

\* html.indexOf(pat, from), 0 when there is none (-1 in the code)
indexOfFrom(h, pat, from) ==
  IF \E j \in from..Len(h) : startsWithAt(h, pat, j)
  THEN CHOOSE j \in from..Len(h) :
         startsWithAt(h, pat, j) /\ \A k \in from..(j - 1) : ~startsWithAt(h, pat, k)
  ELSE 0

\* first position >= from whose character is not in S, Len(h) + 1 when none
skipWhile(h, from, S) ==
  IF \E j \in from..Len(h) : h[j] \notin S
  THEN CHOOSE j \in from..Len(h) : h[j] \notin S /\ \A k \in from..(j - 1) : h[k] \in S
  ELSE Len(h) + 1

\* length of the match of /^<\/(\s*[\w-:]+)\s*>/ at i, 0 when it does not match
closeMatch(h, i) ==
  IF ~startsWithAt(h, <<"<", "/">>, i) THEN 0
  ELSE LET n == skipWhile(h, i + 2, {" "})
           e == skipWhile(h, n, NameChars)
           g == skipWhile(h, e, {" "})
       IN IF e > n /\ g <= Len(h) /\ h[g] = ">" THEN g - i + 1 ELSE 0

\* the match of /^<\s*([\w-:]+)([^>]*?)(\/)?>/ at i: its length (0 when it does
\* not match) and whether group 3 matched
openMatch(h, i) ==
  LET n == skipWhile(h, i + 1, {" "})
      g == indexOfFrom(h, <<">">>, i + 1)
  IN IF h[i] = "<" /\ n <= Len(h) /\ h[n] \in NameChars /\ g > n
     THEN [len |-> g - i + 1, selfClosing |-> (h[g - 1] = "/")]
     ELSE [len |-> 0, selfClosing |-> FALSE]

\* the token the generator yields at position i and the position it moves to
nextToken(h, i) ==
  IF startsWithAt(h, <<"<", "!", "-", "-">>, i)
  THEN LET end == indexOfFrom(h, <<"-", "-", ">">>, i + 4)
       IN [type |-> "comment", index |-> i, selfClosing |-> FALSE,
           next |-> IF end = 0 THEN Len(h) + 1 ELSE end + 3]
  ELSE IF h[i] = "<" /\ closeMatch(h, i) > 0
  THEN [type |-> "close", index |-> i, selfClosing |-> FALSE, next |-> i + closeMatch(h, i)]
  ELSE IF h[i] = "<" /\ openMatch(h, i).len > 0
  THEN [type |-> "open", index |-> i, selfClosing |-> openMatch(h, i).selfClosing,
        next |-> i + openMatch(h, i).len]
  ELSE LET next == indexOfFrom(h, <<"<">>, i)
       IN [type |-> "text", index |-> i, selfClosing |-> FALSE,
           next |-> IF next = 0 THEN Len(h) + 1 ELSE next]

\* parse's stack after one token (the elements are identified by their start index)
parseToken(stack, token) ==
  IF token.type = "open" /\ ~token.selfClosing THEN Append(stack, token.index)
  ELSE IF token.type = "close" /\ Len(stack) > 1 THEN SubSeq(stack, 1, Len(stack) - 1)
  ELSE stack

\* one iteration of parse's for-of loop: the generator runs its while loop once
\* and parse consumes the token.  A token that leaves i where it was puts the
\* generator back in the state it was in: the loop never ends ("looping").
tokenizeStep ==
  /\ tokStatus = "running"
  /\ tokI <= Len(html)
  /\ LET token == nextToken(html, tokI)
     IN /\ tokens' = Append(tokens, token)
        /\ tokI' = token.next
        /\ parseStack' = parseToken(parseStack, token)
        /\ tokStatus' = IF token.next = tokI THEN "looping" ELSE "running"
  /\ UNCHANGED <<html, treeVars, runVars, lintVars, batchVars, remapVars, resolverVars>>

\* i >= html.length: the generator is done and parse returns root
tokenizeDone ==
  /\ tokStatus = "running"
  /\ tokI > Len(html)
  /\ tokStatus' = "done"
  /\ UNCHANGED <<html, tokI, tokens, parseStack, treeVars, runVars, lintVars, batchVars, remapVars, resolverVars>>

\* parse(html) called
TokStart ==
  /\ html \in HtmlTexts
  /\ tokI = 1
  /\ tokens = <<>>
  /\ tokStatus = "running"
  /\ parseStack = <<0>>

\* no parse in progress
TokInit ==
  /\ html = <<>>
  /\ tokI = 1
  /\ tokens = <<>>
  /\ tokStatus = "done"
  /\ parseStack = <<0>>

(***************************************************************************)
(* linter.ts: rule options, nodes and results                              *)
(***************************************************************************)
RuleIds ==
  {"requireSectionHeading", "enforceHeadingOrder", "singleH1", "requireAltText",
   "requireLabelForFormControls", "enforceListNesting", "requireLinkText",
   "requireTableCaption", "preventEmptyInlineTags", "requireHrefOnAnchors",
   "requireButtonText", "requireIframeTitle", "requireHtmlLang",
   "requireImageInputAlt", "requireNavLinks", "uniqueIds"}

\* options.rules: defaultOptions, and the options with one rule switched off
defaultRules == [r \in RuleIds |-> TRUE]
ruleOff(R)   == [r \in RuleIds |-> r # R]

\* attribute values: undefined (no such attribute), a string literal, or, in
\* JSX only, something that is not a string literal ({e}, or no value at all)
Undefined  == "<undefined>"
Expression == "<expression>"
AttrNames  == {"id", "lang", "title", "type", "alt", "aria-label", "for", "htmlFor", "href"}
noAttrs    == [a \in AttrNames |-> Undefined]

\* String.prototype.trim on the literals of the model ("", " ", and words)
trim(s) == IF s = " " THEN "" ELSE s
\* JavaScript truthiness of an attribute value of the HTML parser
truthy(v) == v # Undefined /\ v # ""
isStringLiteral(v) == v # Undefined /\ v # Expression

HeadingTags == <<"h1", "h2", "h3", "h4", "h5", "h6">>
\* /^h[1-6]$/.test(tag)  and  parseInt(tag.charAt(1), 10)
isHeadingTag(tag) == \E l \in DOMAIN HeadingTags : HeadingTags[l] = tag
headingLevel(tag) == CHOOSE l \in DOMAIN HeadingTags : HeadingTags[l] = tag
inlineTags == {"strong", "em", "b", "i", "u", "small", "mark", "del", "ins"}

Element(tag, attrs, selfClosing) ==
  [type |-> "element", tagName |-> tag, attrs |-> attrs, text |-> "", selfClosing |-> selfClosing]
TextNode(text)    == [type |-> "text", tagName |-> "", attrs |-> noAttrs, text |-> text, selfClosing |-> FALSE]
CommentNode(text) == [type |-> "comment", tagName |-> "", attrs |-> noAttrs, text |-> text, selfClosing |-> FALSE]
\* a close tag (HTML: pops whatever element is open) / the end of a JSX element
CloseTag          == [type |-> "close", tagName |-> "", attrs |-> noAttrs, text |-> "", selfClosing |-> FALSE]
\* a JSX expression container {e} among the children of an element
ExpressionContainer == [type |-> "expression", tagName |-> "", attrs |-> noAttrs, text |-> "", selfClosing |-> FALSE]

\* the k-th node of the input stands on a line of its own: getPos(node.startIndex)
\* in HTML, { line: loc.line - 1, column: loc.column } in JSX
posOfNode(k) == [line |-> k - 1, column |-> 0]

LintResult(pos, message, rule) ==
  [line |-> pos.line, column |-> pos.column, message |-> message, rule |-> rule]

\* results.push({ ...pos, message, rule })
push(st, pos, message, rule) ==
  [st EXCEPT !.results = Append(@, LintResult(pos, message, rule))]

top(stack) == stack[Len(stack)]
pop(stack) == SubSeq(stack, 1, Len(stack) - 1)
setTop(stack, field, value) ==
  [stack EXCEPT ![Len(stack)] = [@ EXCEPT ![field] = value]]

\* the locals of lintHtmlString and of lintJsx before the first node is visited
\* (stack: the elements that are open, with how the visit treats each of them)
lintLocals(mode, rules, code) ==
  [mode |-> mode, rules |-> rules, code |-> code, status |-> "called",
   results |-> <<>>, stack |-> <<>>, tagStack |-> <<>>,
   lastHeadingLevel |-> 0, h1Count |-> 0,
   sectionStack |-> <<>>, anchorStack |-> <<>>, buttonStack |-> <<>>,
   tableStack |-> <<>>, emptyStack |-> <<>>, navStack |-> <<>>,
   labels |-> {}, ids |-> {}, htmlSeen |-> FALSE,
   ignoreNext |-> FALSE, ignoreBlock |-> FALSE,
   disableNextLines |-> {}, disableBlocks |-> <<>>]

(***************************************************************************)
(* linter.ts: lintHtmlString, traverse(node) of an element                 *)
(***************************************************************************)
htmlLabels(st, node) ==
  IF node.tagName = "label" /\ truthy(node.attrs["for"])
  THEN [st EXCEPT !.labels = @ \cup {node.attrs["for"]}] ELSE st

htmlNav(st, node, pos) ==
  LET s1 == IF node.tagName = "nav"
            THEN [st EXCEPT !.navStack = Append(@, [line |-> pos.line, column |-> pos.column, hasLink |-> FALSE])]
            ELSE st
  IN IF node.tagName = "a" /\ Len(s1.navStack) > 0
     THEN [s1 EXCEPT !.navStack = setTop(@, "hasLink", TRUE)] ELSE s1

\* ids is a Map whose values are never read: its key set
htmlUniqueIds(st, node, pos) ==
  IF st.rules.uniqueIds /\ truthy(node.attrs["id"])
  THEN IF node.attrs["id"] \in st.ids
       THEN push(st, pos, <<"Duplicate id", node.attrs["id"]>>, "uniqueIds")
       ELSE [st EXCEPT !.ids = @ \cup {node.attrs["id"]}]
  ELSE st

htmlRequireHtmlLang(st, node, pos) ==
  IF st.rules.requireHtmlLang /\ node.tagName = "html" /\ ~st.htmlSeen
  THEN LET s1 == [st EXCEPT !.htmlSeen = TRUE]
           lang == node.attrs["lang"]
       IN IF lang = Undefined
          THEN push(s1, pos, <<"<html> element missing lang attribute">>, "requireHtmlLang")
          ELSE IF trim(lang) = ""
          THEN push(s1, pos, <<"<html> lang attribute is empty">>, "requireHtmlLang")
          ELSE s1
  ELSE st

htmlRequireIframeTitle(st, node, pos) ==
  IF st.rules.requireIframeTitle /\ node.tagName = "iframe"
  THEN LET title == node.attrs["title"]
       IN IF title = Undefined
          THEN push(st, pos, <<"<iframe> missing title attribute">>, "requireIframeTitle")
          ELSE IF trim(title) = ""
          THEN push(st, pos, <<"<iframe> title attribute is empty">>, "requireIframeTitle")
          ELSE st
  ELSE st

htmlRequireImageInputAlt(st, node, pos) ==
  IF st.rules.requireImageInputAlt /\ node.tagName = "input"
     /\ truthy(node.attrs["type"]) /\ node.attrs["type"] = "image"
  THEN LET alt == node.attrs["alt"]
       IN IF alt = Undefined
          THEN push(st, pos, <<"<input type=\"image\"> missing alt attribute">>, "requireImageInputAlt")
          ELSE IF trim(alt) = ""
          THEN push(st, pos, <<"<input type=\"image\"> alt attribute is empty">>, "requireImageInputAlt")
          ELSE st
  ELSE st

htmlRequireLabelForFormControls(st, node, pos) ==
  IF st.rules.requireLabelForFormControls /\ node.tagName \in {"input", "select", "textarea"}
  THEN LET id == node.attrs["id"]
           aria == node.attrs["aria-label"]
       IN IF ~truthy(aria) \/ trim(aria) = ""
          THEN IF ~truthy(id)
               THEN push(st, pos, <<"Form control missing id or aria-label">>, "requireLabelForFormControls")
               ELSE IF id \notin st.labels
               THEN push(st, pos, <<"Form control missing <label for>", id>>, "requireLabelForFormControls")
               ELSE st
          ELSE st
  ELSE st

htmlSingleH1(st, node, pos) ==
  IF st.rules.singleH1 /\ node.tagName = "h1"
  THEN LET s1 == [st EXCEPT !.h1Count = @ + 1]
       IN IF s1.h1Count > 1
          THEN push(s1, pos, <<"Only one <h1> allowed per document">>, "singleH1")
          ELSE s1
  ELSE st

htmlEnforceHeadingOrder(st, node, pos) ==
  IF st.rules.enforceHeadingOrder /\ isHeadingTag(node.tagName)
  THEN LET lvl == headingLevel(node.tagName)
           s1 == IF st.lastHeadingLevel # 0 /\ lvl > st.lastHeadingLevel + 1
                 THEN push(st, pos, <<"Heading level skipped", node.tagName,
                                      HeadingTags[st.lastHeadingLevel]>>, "enforceHeadingOrder")
                 ELSE st
           s2 == [s1 EXCEPT !.lastHeadingLevel = lvl]
       IN IF Len(s2.sectionStack) > 0
          THEN [s2 EXCEPT !.sectionStack = setTop(@, "foundHeading", TRUE)] ELSE s2
  ELSE st

htmlRequireAltTextAlways(st, node, pos) ==
  IF node.tagName = "img" /\ node.attrs["alt"] = Undefined
  THEN push(st, pos, <<"<img> tag missing alt attribute">>, "requireAltText")
  ELSE st
htmlRequireAltText(st, node, pos) ==
  IF st.rules.requireAltText /\ node.tagName = "img"
  THEN LET alt == node.attrs["alt"]
       IN IF alt = Undefined
          THEN push(st, pos, <<"<img> tag missing alt attribute">>, "requireAltText")
          ELSE IF trim(alt) = ""
          THEN push(st, pos, <<"<img> alt attribute is empty">>, "requireAltText")
          ELSE st
  ELSE st

\* tagStack already holds the element itself: its parent is tagStack[length - 2]
htmlEnforceListNesting(st, node, pos) ==
  IF st.rules.enforceListNesting /\ node.tagName = "li"
  THEN IF Len(st.tagStack) < 2 \/ st.tagStack[Len(st.tagStack) - 1].tag \notin {"ul", "ol"}
       THEN push(st, pos, <<"<li> must be inside a <ul> or <ol>">>, "enforceListNesting")
       ELSE st
  ELSE st

htmlAnchor(st, node, pos) ==
  IF node.tagName = "a"
  THEN LET s1 == [st EXCEPT !.anchorStack = Append(@, [line |-> pos.line, column |-> pos.column, foundText |-> FALSE])]
           href == node.attrs["href"]
       IN IF st.rules.requireHrefOnAnchors /\ (~truthy(href) \/ trim(href) = "")
          THEN push(s1, pos, <<"<a> tag missing non-empty href attribute">>, "requireHrefOnAnchors")
          ELSE s1
  ELSE st

htmlButton(st, node, pos) ==
  IF st.rules.requireButtonText /\ node.tagName = "button"
  THEN LET aria == node.attrs["aria-label"]
       IN [st EXCEPT !.buttonStack = Append(@,
             [line |-> pos.line, column |-> pos.column,
              foundText |-> (truthy(aria) /\ trim(aria) # ""),
              hadEmptyAria |-> (aria # Undefined /\ trim(aria) = "")])]
  ELSE st

htmlTable(st, node, pos) ==
  LET s1 == IF node.tagName = "table"
            THEN [st EXCEPT !.tableStack = Append(@, [line |-> pos.line, column |-> pos.column, foundCaption |-> FALSE])]
            ELSE st
  IN IF node.tagName = "caption" /\ Len(s1.tableStack) > 0
     THEN [s1 EXCEPT !.tableStack = setTop(@, "foundCaption", TRUE)] ELSE s1

htmlInline(st, node, pos) ==
  IF st.rules.preventEmptyInlineTags /\ node.tagName \in inlineTags
  THEN [st EXCEPT !.emptyStack = Append(@, [line |-> pos.line, column |-> pos.column,
                                            tag |-> node.tagName, foundText |-> FALSE])]
  ELSE st

htmlSection(st, node, pos) ==
  IF st.rules.requireSectionHeading /\ node.tagName = "section"
  THEN [st EXCEPT !.sectionStack = Append(@, [line |-> pos.line, column |-> pos.column, foundHeading |-> FALSE])]
  ELSE st

\* lines 136-241 of traverse: the checks made when an element is entered
htmlEnter(st, node, pos) ==
  LET s1  == htmlLabels(st, node)
      s2  == htmlNav(s1, node, pos)
      s3  == htmlUniqueIds(s2, node, pos)
      s4  == htmlRequireHtmlLang(s3, node, pos)
      s5  == htmlRequireIframeTitle(s4, node, pos)
      s6  == htmlRequireImageInputAlt(s5, node, pos)
      s7  == htmlRequireLabelForFormControls(s6, node, pos)
      s8  == htmlSingleH1(s7, node, pos)
      s9  == htmlEnforceHeadingOrder(s8, node, pos)
      s10 == htmlRequireAltText(s9, node, pos)
      s11 == htmlEnforceListNesting(s10, node, pos)
      s12 == htmlAnchor(s11, node, pos)
      s13 == htmlButton(s12, node, pos)
      s14 == htmlTable(s13, node, pos)
      s15 == htmlInline(s14, node, pos)
  IN htmlSection(s15, node, pos)

\* Array.prototype.pop on an empty array returns undefined and changes nothing
closeInline(st, tag) ==
  IF st.rules.preventEmptyInlineTags /\ tag \in inlineTags /\ Len(st.emptyStack) > 0
  THEN LET e == top(st.emptyStack)
           s1 == [st EXCEPT !.emptyStack = pop(@)]
       IN IF ~e.foundText THEN push(s1, e, <<"tag should not be empty", tag>>, "preventEmptyInlineTags")
          ELSE s1
  ELSE st

closeAnchor(st, tag) ==
  IF st.rules.requireLinkText /\ tag = "a" /\ Len(st.anchorStack) > 0
  THEN LET a == top(st.anchorStack)
           s1 == [st EXCEPT !.anchorStack = pop(@)]
       IN IF ~a.foundText THEN push(s1, a, <<"<a> tag missing link text">>, "requireLinkText")
          ELSE s1
  ELSE st

closeNav(st, tag) ==
  IF tag = "nav" /\ Len(st.navStack) > 0
  THEN LET n == top(st.navStack)
           s1 == [st EXCEPT !.navStack = pop(@)]
       IN IF st.rules.requireNavLinks /\ ~n.hasLink
          THEN push(s1, n, <<"<nav> contains no links">>, "requireNavLinks")
          ELSE s1
  ELSE st

closeButton(st, tag) ==
  IF st.rules.requireButtonText /\ tag = "button" /\ Len(st.buttonStack) > 0
  THEN LET b == top(st.buttonStack)
           s1 == [st EXCEPT !.buttonStack = pop(@)]
       IN IF ~b.foundText
          THEN IF b.hadEmptyAria
               THEN push(s1, b, <<"<button> aria-label attribute is empty">>, "requireButtonText")
               ELSE push(s1, b, <<"<button> missing accessible text">>, "requireButtonText")
          ELSE s1
  ELSE st

closeSection(st, tag) ==
  IF st.rules.requireSectionHeading /\ tag = "section" /\ Len(st.sectionStack) > 0
  THEN LET s == top(st.sectionStack)
           s1 == [st EXCEPT !.sectionStack = pop(@)]
       IN IF ~s.foundHeading
          THEN push(s1, s, <<"<section> missing heading (<h1>-<h6>)">>, "requireSectionHeading")
          ELSE s1
  ELSE st

closeTable(st, tag) ==
  IF st.rules.requireTableCaption /\ tag = "table" /\ Len(st.tableStack) > 0
  THEN LET t == top(st.tableStack)
           s1 == [st EXCEPT !.tableStack = pop(@)]
       IN IF ~t.foundCaption THEN push(s1, t, <<"<table> missing <caption>">>, "requireTableCaption")
          ELSE s1
  ELSE st

\* the checks made when an element is left, shared by lines 251-287 of
\* traverse and by the exit visitor of lintJsx (lines 541-579)
closingChecks(st, tag) ==
  closeTable(closeSection(closeButton(closeNav(closeAnchor(closeInline(st, tag), tag), tag), tag), tag), tag)

\* lines 245-289 of traverse: after the children of a visited element
htmlExit(st, tag) ==
  IF st.ignoreBlock THEN [st EXCEPT !.tagStack = pop(@)]
  ELSE [closingChecks(st, tag) EXCEPT !.tagStack = pop(@)]

\* how traverse treats an element: "visit" (lines 136-289), "ignoreBlock"
\* (lines 130-134: children visited, no checks), "ignoreNext" (line 129: not
\* entered); the descendants of the latter are never passed to traverse
Frame(tag, how) == [tag |-> tag, how |-> how]
traversed(st) == \A i \in DOMAIN st.stack : st.stack[i].how \notin {"ignoreNext", "unvisited"}

\* the part of traverse(element) that runs before its children
htmlBefore(st, node, pos) ==
  IF st.ignoreNext THEN [st EXCEPT !.ignoreNext = FALSE]
  ELSE LET s1 == [st EXCEPT !.tagStack = Append(@, [tag |-> node.tagName, line |-> pos.line, column |-> pos.column])]
       IN IF st.ignoreBlock THEN s1 ELSE htmlEnter(s1, node, pos)

howTraversed(st) ==
  IF st.ignoreNext THEN "ignoreNext" ELSE IF st.ignoreBlock THEN "ignoreBlock" ELSE "visit"

\* the part of traverse(element) that runs after its children
htmlAfter(st, frame) ==
  IF frame.how = "visit" THEN htmlExit(st, frame.tag)
  ELSE IF frame.how = "ignoreBlock" THEN [st EXCEPT !.tagStack = pop(@)]
  ELSE st

\* an open token: parse pushes the element unless it is self-closing
\* (component-analyzer.ts 545-548); traverse reaches it in document order
htmlElement(st, node, pos) ==
  IF ~traversed(st)
  THEN IF node.selfClosing THEN st
       ELSE [st EXCEPT !.stack = Append(@, Frame(node.tagName, "unvisited"))]
  ELSE LET frame == Frame(node.tagName, howTraversed(st))
           s1 == htmlBefore(st, node, pos)
       IN IF node.selfClosing THEN htmlAfter(s1, frame)
          ELSE [s1 EXCEPT !.stack = Append(@, frame)]

\* a close token: parse pops the open element, whatever its tag, unless only
\* root is left (component-analyzer.ts 549-550); traverse of that element ends
htmlCloseTag(st) ==
  IF Len(st.stack) = 0 THEN st
  ELSE LET frame == top(st.stack)
       IN htmlAfter([st EXCEPT !.stack = pop(@)], frame)

\* trimmed.startsWith(directive) for the comment texts of the model
startsWith(text, prefix) ==
  text = prefix \/ (prefix = "zemdomu-disable" /\ text = "zemdomu-disable-next")

\* lines 103-113
htmlComment(st, text) ==
  IF ~traversed(st) THEN st
  ELSE IF startsWith(text, "zemdomu-disable-next") THEN [st EXCEPT !.ignoreNext = TRUE]
  ELSE IF startsWith(text, "zemdomu-disable") THEN [st EXCEPT !.ignoreBlock = TRUE]
  ELSE IF startsWith(text, "zemdomu-enable") THEN [st EXCEPT !.ignoreBlock = FALSE]
  ELSE st

\* lines 585-593 and 117-120: a child with text marks the innermost open
\* anchor, inline tag and button
markFoundText(st) ==
  LET s1 == IF Len(st.anchorStack) > 0 THEN [st EXCEPT !.anchorStack = setTop(@, "foundText", TRUE)] ELSE st
      s2 == IF Len(s1.emptyStack) > 0 THEN [s1 EXCEPT !.emptyStack = setTop(@, "foundText", TRUE)] ELSE s1
  IN IF Len(s2.buttonStack) > 0 THEN [s2 EXCEPT !.buttonStack = setTop(@, "foundText", TRUE)] ELSE s2

\* lines 115-122
htmlText(st, text) ==
  IF ~traversed(st) \/ st.ignoreBlock THEN st
  ELSE IF trim(text) # "" THEN markFoundText(st) ELSE st

\* the end of the text: every element still open ends there
RECURSIVE closeAll(_)
closeAll(st) == IF Len(st.stack) = 0 THEN st ELSE closeAll(htmlCloseTag(st))

\* lines 294-299 and 610-615
RECURSIVE flushNav(_)
flushNav(st) ==
  IF ~st.rules.requireNavLinks \/ Len(st.navStack) = 0 THEN st
  ELSE LET n == top(st.navStack)
           s1 == [st EXCEPT !.navStack = pop(@)]
       IN flushNav(IF ~n.hasLink THEN push(s1, n, <<"<nav> contains no links">>, "requireNavLinks")
                   ELSE s1)

(***************************************************************************)
(* linter.ts: lintJsx                                                      *)
(***************************************************************************)
\* blockStart === null; lines are numbered from 1
NoLine == 0
\* Number.MAX_SAFE_INTEGER: above every line number (kept within TLC's integers)
MAX_SAFE_INTEGER == 2147483647

\* lines 317-331: one comment, c.value.trim() = text, on line `line`
scanComment(acc, text, line) ==
  IF startsWith(text, "zemdomu-disable-next")
  THEN [acc EXCEPT !.disableNextLines = @ \cup {line + 1}]
  ELSE IF startsWith(text, "zemdomu-disable")
  THEN [acc EXCEPT !.blockStart = line]
  ELSE IF startsWith(text, "zemdomu-enable") /\ acc.blockStart # NoLine
  THEN [acc EXCEPT !.disableBlocks = Append(@, [start |-> acc.blockStart, end |-> line]),
                   !.blockStart = NoLine]
  ELSE acc

\* ast.comments as a sequence indexed by line, "" where the line has no comment
RECURSIVE scanComments(_, _, _)
scanComments(acc, comments, k) ==
  IF k > Len(comments) THEN acc
  ELSE scanComments(IF comments[k] = "" THEN acc ELSE scanComment(acc, comments[k], k),
                    comments, k + 1)

\* lines 313-335
directives(comments) ==
  LET acc == scanComments([disableNextLines |-> {}, disableBlocks |-> <<>>, blockStart |-> NoLine],
                          comments, 1)
  IN IF acc.blockStart # NoLine
     THEN [acc EXCEPT !.disableBlocks = Append(@, [start |-> acc.blockStart, end |-> MAX_SAFE_INTEGER])]
     ELSE acc

isIgnored(st, line) ==
  \/ line \in st.disableNextLines
  \/ \E i \in DOMAIN st.disableBlocks :
       line >= st.disableBlocks[i].start /\ line <= st.disableBlocks[i].end

jsxLabels(st, node) ==
  IF isStringLiteral(node.attrs["for"])
  THEN [st EXCEPT !.labels = @ \cup {node.attrs["for"]}] ELSE st

jsxUniqueIds(st, node, pos) ==
  LET id == node.attrs["id"]
  IN IF st.rules.uniqueIds /\ isStringLiteral(id) /\ id # ""
     THEN IF id \in st.ids
          THEN push(st, pos, <<"Duplicate id", id>>, "uniqueIds")
          ELSE [st EXCEPT !.ids = @ \cup {id}]
     ELSE st

jsxRequireHtmlLang(st, node, pos) ==
  IF st.rules.requireHtmlLang /\ node.tagName = "html" /\ ~st.htmlSeen
  THEN LET s1 == [st EXCEPT !.htmlSeen = TRUE]
           hasLang == isStringLiteral(node.attrs["lang"]) /\ trim(node.attrs["lang"]) # ""
       IN IF ~hasLang
          THEN push(s1, pos, <<"<html> element missing lang attribute">>, "requireHtmlLang")
          ELSE s1
  ELSE st

jsxRequireIframeTitle(st, node, pos) ==
  IF st.rules.requireIframeTitle /\ node.tagName = "iframe"
  THEN LET hasTitle == isStringLiteral(node.attrs["title"]) /\ trim(node.attrs["title"]) # ""
       IN IF ~hasTitle
          THEN push(st, pos, <<"<iframe> missing title attribute">>, "requireIframeTitle")
          ELSE st
  ELSE st

jsxRequireImageInputAlt(st, node, pos) ==
  IF st.rules.requireImageInputAlt /\ node.tagName = "input"
  THEN LET isImage == isStringLiteral(node.attrs["type"]) /\ node.attrs["type"] = "image"
           altVal == IF isStringLiteral(node.attrs["alt"]) THEN node.attrs["alt"] ELSE Undefined
       IN IF isImage /\ (~truthy(altVal) \/ trim(altVal) = "")
          THEN push(st, pos, <<"<input type=\"image\"> missing alt attribute">>, "requireImageInputAlt")
          ELSE st
  ELSE st

jsxRequireLabelForFormControls(st, node, pos) ==
  IF st.rules.requireLabelForFormControls /\ node.tagName \in {"input", "select", "textarea"}
  THEN LET idVal == IF isStringLiteral(node.attrs["id"]) THEN node.attrs["id"] ELSE Undefined
           ariaVal == IF isStringLiteral(node.attrs["aria-label"]) THEN node.attrs["aria-label"]
                      ELSE Undefined
       IN IF ~truthy(ariaVal) \/ trim(ariaVal) = ""
          THEN IF ~truthy(idVal)
               THEN push(st, pos, <<"Form control missing id or aria-label">>, "requireLabelForFormControls")
               ELSE IF idVal \notin st.labels
               THEN push(st, pos, <<"Form control missing <label for>", idVal>>, "requireLabelForFormControls")
               ELSE st
          ELSE st
  ELSE st

jsxSingleH1(st, node, pos) ==
  IF st.rules.singleH1 /\ node.tagName = "h1"
  THEN LET s1 == [st EXCEPT !.h1Count = @ + 1]
       IN IF s1.h1Count > 1
          THEN push(s1, pos, <<"Only one <h1> allowed per document">>, "singleH1")
          ELSE s1
  ELSE st

jsxEnforceHeadingOrder(st, node, pos) ==
  IF st.rules.enforceHeadingOrder /\ isHeadingTag(node.tagName)
  THEN LET lvl == headingLevel(node.tagName)
           s1 == IF st.lastHeadingLevel # 0 /\ lvl > st.lastHeadingLevel + 1
                 THEN push(st, pos, <<"Heading level skipped", node.tagName,
                                      HeadingTags[st.lastHeadingLevel]>>, "enforceHeadingOrder")
                 ELSE st
           s2 == [s1 EXCEPT !.lastHeadingLevel = lvl]
       IN IF Len(s2.sectionStack) > 0
          THEN [s2 EXCEPT !.sectionStack = setTop(@, "foundHeading", TRUE)] ELSE s2
  ELSE st

jsxRequireAltText(st, node, pos) ==
  IF st.rules.requireAltText /\ node.tagName = "img"
  THEN LET alt == node.attrs["alt"]
       IN IF alt = Undefined
          THEN push(st, pos, <<"<img> tag missing alt attribute">>, "requireAltText")
          ELSE IF ~isStringLiteral(alt) \/ trim(alt) = ""
          THEN push(st, pos, <<"<img> alt attribute is empty">>, "requireAltText")
          ELSE st
  ELSE st

\* path.parentPath.node: the element the <li> is a direct child of, if any
jsxEnforceListNesting(st, node, pos) ==
  IF st.rules.enforceListNesting /\ node.tagName = "li" /\ Len(st.stack) > 0
     /\ top(st.stack).tag \notin {"ul", "ol"}
  THEN push(st, pos, <<"<li> must be inside a <ul> or <ol>">>, "enforceListNesting")
  ELSE st

jsxAnchor(st, node, pos) ==
  IF node.tagName = "a"
  THEN LET s1 == [st EXCEPT !.anchorStack = Append(@, [line |-> pos.line, column |-> pos.column, foundText |-> FALSE])]
           hrefVal == node.attrs["href"]
       IN IF st.rules.requireHrefOnAnchors
             /\ (hrefVal = Undefined \/ ~isStringLiteral(hrefVal) \/ trim(hrefVal) = "")
          THEN push(s1, pos, <<"<a> tag missing non-empty href attribute">>, "requireHrefOnAnchors")
          ELSE s1
  ELSE st

jsxButton(st, node, pos) ==
  IF st.rules.requireButtonText /\ node.tagName = "button"
  THEN LET aria == node.attrs["aria-label"]
           hasAria == isStringLiteral(aria) /\ trim(aria) # ""
           emptyAria == isStringLiteral(aria) /\ trim(aria) = ""
       IN [st EXCEPT !.buttonStack = Append(@,
             [line |-> pos.line, column |-> pos.column,
              foundText |-> hasAria, hadEmptyAria |-> emptyAria])]
  ELSE st

\* lines 365-532: the enter visitor of an element that is not ignored
jsxEnter(st, node, pos) ==
  LET s1  == jsxLabels(st, node)
      s2  == htmlNav(s1, node, pos)
      s3  == jsxUniqueIds(s2, node, pos)
      s4  == jsxRequireHtmlLang(s3, node, pos)
      s5  == jsxRequireIframeTitle(s4, node, pos)
      s6  == jsxRequireImageInputAlt(s5, node, pos)
      s7  == jsxRequireLabelForFormControls(s6, node, pos)
      s8  == jsxSingleH1(s7, node, pos)
      s9  == jsxEnforceHeadingOrder(s8, node, pos)
      s10 == jsxRequireAltText(s9, node, pos)
      s11 == jsxEnforceListNesting(s10, node, pos)
      s12 == jsxAnchor(s11, node, pos)
      s13 == jsxButton(s12, node, pos)
      s14 == htmlTable(s13, node, pos)
      s15 == htmlInline(s14, node, pos)
  IN htmlSection(s15, node, pos)

\* lines 595-607
jsxExpressionContainer(st, line) ==
  IF isIgnored(st, line) THEN st ELSE markFoundText(st)

\* lines 582-594
jsxText(st, text, line) ==
  IF isIgnored(st, line) THEN st
  ELSE IF trim(text) # "" THEN markFoundText(st) ELSE st

\* the traversal of an opening element: enter (lines 356-533), then the
\* expression containers among its attribute values (lines 595-607)
jsxOpening(st, node, line) ==
  IF isIgnored(st, line) THEN st
  ELSE LET s1 == jsxEnter(st, node, posOfNode(line))
       IN IF \E a \in AttrNames : node.attrs[a] = Expression
          THEN jsxExpressionContainer(s1, line) ELSE s1

\* lines 534-580
jsxExit(st, frame) ==
  IF frame.how = "visit" THEN closingChecks(st, frame.tag) ELSE st

jsxElement(st, node, line) ==
  LET frame == Frame(node.tagName, IF isIgnored(st, line) THEN "ignored" ELSE "visit")
      s1 == jsxOpening(st, node, line)
  IN IF node.selfClosing THEN jsxExit(s1, frame)
     ELSE [s1 EXCEPT !.stack = Append(@, frame)]

jsxClosingElement(st) ==
  jsxExit([st EXCEPT !.stack = pop(@)], top(st.stack))

\* lines 618-627
parseError == LintResult([line |-> 0, column |-> 0], <<"Error parsing JSX/TSX">>, "parseError")
rethrowParseError(st) == [st EXCEPT !.status = "thrown"]
catchParseError(st) == [st EXCEPT !.results = <<parseError>>, !.status = "returned"]

(***************************************************************************)
(* linter.ts: lintHtml as a state machine over the nodes of its input      *)
(***************************************************************************)
Directives == {"zemdomu-disable-next", "zemdomu-disable", "zemdomu-enable"}

\* what lintJsx gets from @babel/parser: a rejected text (parse throws), or an
\* AST whose comments are known before the traversal starts
Rejected == [rejected |-> TRUE, comments |-> <<>>]
Parsed(comments) == [rejected |-> FALSE, comments |-> comments]
JsxCodes(n) == {Rejected} \cup {Parsed(c) : c \in [1..n -> Directives \cup {""}]}

\* one node of the input with the way the traversal treated it
Visited(node, how) == [node |-> node, how |-> how]

\* lintHtml(content, xmlMode, options), lines 73-75, up to the first node:
\* lintHtmlString parses (line 80) and starts traverse; lintJsx parses (line
\* 311), which throws into the catch of line 618 or yields the AST whose
\* comments are scanned (lines 313-335)
lintHtml ==
  /\ lint.status = "called"
  /\ lint' = IF lint.mode = "html" THEN [lint EXCEPT !.status = "traversing"]
             ELSE IF lint.code.rejected THEN catchParseError(lint)
             ELSE LET d == directives(lint.code.comments)
                  IN [lint EXCEPT !.status = "traversing",
                                  !.disableNextLines = d.disableNextLines,
                                  !.disableBlocks = d.disableBlocks]
  /\ UNCHANGED <<doc, calls, treeVars, runVars, tokVars, batchVars, remapVars, resolverVars>>

\* what the HTML traversal does with one node of the input
htmlNode(st, node, pos) ==
  IF node.type = "element" THEN htmlElement(st, node, pos)
  ELSE IF node.type = "close" THEN htmlCloseTag(st)
  ELSE IF node.type = "text" THEN htmlText(st, node.text)
  ELSE htmlComment(st, node.text)

\* what the JSX traversal does with one node of the input; a comment inside
\* an element is an expression container, outside it is no JSX node
jsxNode(st, node, line) ==
  IF node.type = "element" THEN jsxElement(st, node, line)
  ELSE IF node.type = "close" THEN jsxClosingElement(st)
  ELSE IF node.type = "text" THEN jsxText(st, node.text, line)
  ELSE IF node.type = "expression" \/ Len(st.stack) > 0
       THEN jsxExpressionContainer(st, line)
  ELSE st

\* lintHtmlString: the next token of the text, in document order
traverse(node) ==
  /\ lint.mode = "html" /\ lint.status = "traversing"
  /\ LET pos == posOfNode(Len(doc) + 1)
     IN /\ lint' = htmlNode(lint, node, pos)
        /\ doc' = Append(doc, Visited(node,
                    IF node.type # "element" THEN ""
                    ELSE IF ~traversed(lint) THEN "unvisited" ELSE howTraversed(lint)))
  /\ UNCHANGED <<calls, treeVars, runVars, tokVars, batchVars, remapVars, resolverVars>>

\* lintHtmlString: the text ends; lines 292-303
htmlReturn ==
  /\ lint.mode = "html" /\ lint.status = "traversing"
  /\ lint' = [flushNav(closeAll(lint)) EXCEPT !.status = "returned"]
  /\ UNCHANGED <<doc, calls, treeVars, runVars, tokVars, batchVars, remapVars, resolverVars>>

\* lintJsx: the next line of the source, which holds one node of the AST; a
\* comment stands where ast.comments has it, as {/* ... */} inside an element
\* and as a JavaScript comment outside; text and {e} occur inside elements
jsxVisit(node) ==
  /\ lint.mode = "jsx" /\ lint.status = "traversing"
  /\ Len(doc) < Len(lint.code.comments)
  /\ LET line == Len(doc) + 1
     IN /\ IF node.type = "comment" THEN lint.code.comments[line] = node.text
           ELSE lint.code.comments[line] = ""
        /\ node.type \in {"close", "text", "expression"} => Len(lint.stack) > 0
        /\ lint' = jsxNode(lint, node, line)
        /\ doc' = Append(doc, Visited(node,
                    IF node.type # "element" THEN ""
                    ELSE IF isIgnored(lint, line) THEN "ignored" ELSE "visit"))
  /\ UNCHANGED <<calls, treeVars, runVars, tokVars, batchVars, remapVars, resolverVars>>

\* lintJsx: the traversal is over; lines 610-617
jsxReturn ==
  /\ lint.mode = "jsx" /\ lint.status = "traversing"
  /\ Len(lint.stack) = 0
  /\ \A line \in DOMAIN lint.code.comments : line > Len(doc) => lint.code.comments[line] = ""
  /\ lint' = [flushNav(lint) EXCEPT !.status = "returned"]
  /\ UNCHANGED <<doc, calls, treeVars, runVars, tokVars, batchVars, remapVars, resolverVars>>

MaxCalls == 3    \* calls of lintHtml one after the other

\* a call of lintHtml whose locals are those the previous call left behind
lintHtmlCalledKeepingLocals(mode, rules, code) ==
  /\ lint.status = "returned"
  /\ Len(calls) + 1 < MaxCalls
  /\ calls' = Append(calls, [mode |-> lint.mode, rules |-> lint.rules, code |-> lint.code,
                             doc |-> doc, results |-> lint.results])
  /\ lint' = [lint EXCEPT !.mode = mode, !.rules = rules, !.code = code,
                          !.status = "called", !.results = <<>>]
  /\ doc' = <<>>
  /\ UNCHANGED <<treeVars, runVars, tokVars, batchVars, remapVars, resolverVars>>

\* the caller, which has the results of one call, calls lintHtml for the next
\* file: results, the stacks, the counters, labels, ids and the directive
\* flags are declared in the body of lintHtmlString (lines 79-95) and of
\* lintJsx (lines 308, 313-315, 342-352), so the call starts with new ones
lintHtmlCalled(mode, rules, code) ==
  /\ lint.status = "returned"
  /\ Len(calls) + 1 < MaxCalls
  /\ calls' = Append(calls, [mode |-> lint.mode, rules |-> lint.rules, code |-> lint.code,
                             doc |-> doc, results |-> lint.results])
  /\ lint' = lintLocals(mode, rules, code)
  /\ doc' = <<>>
  /\ UNCHANGED <<treeVars, runVars, tokVars, batchVars, remapVars, resolverVars>>

\* no lint call in progress
LintInit ==
  /\ lint = [lintLocals("html", defaultRules, Parsed(<<>>)) EXCEPT !.status = "returned"]
  /\ doc = <<>>
  /\ calls = <<>>

(***************************************************************************)
(* Inputs of the linter                                                    *)
(***************************************************************************)
MaxCallDocLen    == 2    \* nodes of an input of one of several calls
MaxRuleDocLen    == 3    \* nodes of an input of the all-rules family
MaxHeadingDocLen == 5    \* nodes of an input of the headings family

attr(name, value) == [noAttrs EXCEPT ![name] = value]

\* one element per rule that the element alone, or twice, or with a heading
\* of another level before it, makes the rule report
RuleElements ==
  { Element("html", noAttrs, FALSE), Element("iframe", noAttrs, TRUE),
    Element("input", attr("type", "image"), TRUE),
    Element("h1", noAttrs, FALSE), Element("h3", noAttrs, FALSE),
    Element("img", noAttrs, TRUE), Element("li", noAttrs, FALSE),
    Element("a", noAttrs, FALSE), Element("button", noAttrs, FALSE),
    Element("table", noAttrs, FALSE), Element("strong", noAttrs, FALSE),
    Element("section", noAttrs, FALSE), Element("nav", noAttrs, FALSE),
    Element("div", attr("id", "x"), TRUE) }

\* attributes whose value is an expression
DynamicElements ==
  { Element("img", attr("alt", Expression), TRUE), Element("a", attr("href", Expression), FALSE),
    Element("iframe", attr("title", Expression), TRUE), Element("html", attr("lang", Expression), FALSE) }

CommentNodes == {CommentNode(d) : d \in Directives}

\* inputs that leave something behind in every kind of local: a counter, the
\* id set, htmlSeen, a stack, the directive flags
CallNodes ==
  { Element("h1", noAttrs, FALSE), Element("div", attr("id", "x"), TRUE),
    Element("html", noAttrs, FALSE), CloseTag, CommentNode("zemdomu-disable") }
CallOptionSets == {defaultRules, ruleOff("uniqueIds")}

HtmlRuleNodes == RuleElements \cup CommentNodes \cup {CloseTag, TextNode("x")}
JsxRuleNodes  == RuleElements \cup DynamicElements \cup CommentNodes
                   \cup {CloseTag, TextNode("x"), ExpressionContainer}

RuleOptionSets == {defaultRules} \cup {ruleOff(R) : R \in RuleIds}

HeadingElements ==
  {Element(HeadingTags[l], noAttrs, FALSE) : l \in 1..MaxLevel} \cup {Element("div", noAttrs, FALSE)}
HeadingNodes == HeadingElements \cup CommentNodes \cup {CloseTag}

\* list items, lists and another container
MaxListDocLen == 4    \* nodes of an input of the lists family
ListElements == {Element(t, noAttrs, FALSE) : t \in {"li", "ul", "ol", "div"}}
ListNodes == ListElements \cup CommentNodes \cup {CloseTag}

\* elements with one of two ids, or none
MaxIdDocLen == 4    \* nodes of an input of the ids family
IdElements ==
  {Element("div", attr("id", v), sc) : v \in {"x", "y"}, sc \in BOOLEAN}
    \cup {Element("div", noAttrs, TRUE)}
IdNodes == IdElements \cup CommentNodes \cup {CloseTag}

\* labels and form controls in JSX
MaxLabelDocLen == 3    \* nodes of an input of the labels family
LabelElements ==
  { Element("label", attr("htmlFor", "x"), FALSE), Element("label", attr("for", "x"), FALSE),
    Element("input", attr("id", "x"), TRUE), Element("input", attr("id", "y"), TRUE),
    Element("input", noAttrs, TRUE), Element("div", noAttrs, FALSE) }
LabelNodes == LabelElements \cup CommentNodes \cup {CloseTag, TextNode("x")}

\* an element that reports whenever it is linted, a container, directives
MaxDirectiveDocLen == 6    \* nodes of an input of the directives family
DirectiveNodes ==
  {Element("img", noAttrs, TRUE), Element("div", noAttrs, FALSE), CloseTag} \cup CommentNodes


\* elements that push onto a rule stack, directives
MaxStackDocLen == 4    \* nodes of an input of the rule-stack family
StackNodes ==
  {Element("a", attr("href", "x"), FALSE), Element("section", noAttrs, FALSE),
   Element("strong", noAttrs, FALSE), CloseTag, TextNode("x")} \cup CommentNodes

\* sections within sections, headings
MaxSectionDocLen == 6    \* nodes of an input of the sections family
SectionNodes == {Element("section", noAttrs, FALSE), Element("h2", noAttrs, FALSE), CloseTag}

\* links, buttons and inline tags, with text, with expressions as children
\* and as attribute values
MaxTextDocLen == 5    \* nodes of an input of the text family
TextElements ==
  {Element("a", attr("href", "x"), FALSE), Element("button", noAttrs, FALSE),
   Element("strong", noAttrs, FALSE), Element("em", noAttrs, FALSE)}
HtmlTextNodes == TextElements \cup {CloseTag, TextNode("x")}
JsxTextNodes ==
  HtmlTextNodes \cup {Element("button", attr("title", Expression), FALSE),
                      Element("a", attr("href", Expression), FALSE), ExpressionContainer}

\* new ComponentAnalyzer(options)
TreeInit ==
  /\ componentRegistry = <<>>
  /\ registryKeys = <<>>
  /\ treeOptions \in TreeOptionSets
  /\ treeStatus = "none"
  /\ treeResults = <<>>
  /\ held = <<>>


\* an analyzer that is not used
IdleTree == TreeInit /\ treeOptions.crossComponentAnalysis

(***************************************************************************)
(* Specifications of the analyzer                                          *)
(***************************************************************************)
\* A workspace batch over the usage-graph family: the files are analysed once
\* each, in path order (the registry is a map, so the order in which distinct
\* files arrive does not change it), and the tree is analysed at any point.
AnalyzeGraphFile ==
  \E p \in GraphPaths, content \in GraphContents :
    /\ p = Len(registryKeys) + 1
    /\ analyzeFile(p, content)
    /\ UNCHANGED held

\* Files of the heading-merge family are analysed and re-analysed in any order.
AnalyzeMergeFile ==
  \E p \in MergePaths, content \in MergeContents : analyzeFile(p, content) /\ UNCHANGED held

AnalyzeTieFile ==
  \E p \in MergePaths, content \in TieContents : analyzeFile(p, content) /\ UNCHANGED held

InitTies == TreeInit /\ RunInit /\ TokInit /\ BatchInit /\ LintInit /\ RemapInit /\ ResolverInit
NextTies == AnalyzeTieFile \/ analyzeComponentTree
SpecTies == InitTies /\ [][NextTies]_vars

InitResolver ==
  /\ \E fs \in SUBSET FileUniverse : resolver = resolverOver(fs)
  /\ IdleTree /\ RunInit /\ TokInit /\ BatchInit /\ LintInit /\ RemapInit
NextResolver ==
  \/ \E importPath \in ImportPaths : resolve(importPath)
  \/ \E f \in FileUniverse : fileCreated(f)
SpecResolver == InitResolver /\ [][NextResolver]_vars

InitGraph ==
  /\ TreeInit /\ treeOptions.crossComponentAnalysis
  /\ RunInit /\ TokInit /\ BatchInit /\ LintInit /\ RemapInit /\ ResolverInit
NextGraph == AnalyzeGraphFile \/ analyzeComponentTree
SpecGraph == InitGraph /\ [][NextGraph]_vars

InitMerge == TreeInit /\ RunInit /\ TokInit /\ BatchInit /\ LintInit /\ RemapInit /\ ResolverInit
NextMerge == AnalyzeMergeFile \/ analyzeComponentTree
SpecMerge == InitMerge /\ [][NextMerge]_vars

\* Analyses and registrations of the files of a small family, in any order;
\* the issues registered are results of the linter's two heading rules.
MaxHeld   == 3    \* objects that callers keep
MaxIssues == 3    \* issues of a component, over both rules
RegistryContents ==
  {[items |-> s, layout |-> "lines"] :
     s \in {<<>>, <<HeadingItem(1)>>, <<HeadingItem(1), HeadingItem(3)>>}}
RegistryIssues ==
  { <<>>,
    <<LintResult([line |-> 2, column |-> 0], <<"Only one <h1> allowed per document">>, "singleH1")>>,
    <<LintResult([line |-> 2, column |-> 0], <<"Heading level skipped", "h3", "h2">>,
                 "enforceHeadingOrder")>> }
issueCount(c) == Len(c.issues.singleH1) + Len(c.issues.enforceHeadingOrder)
InitRegistry == TreeInit /\ RunInit /\ TokInit /\ BatchInit /\ LintInit /\ RemapInit /\ ResolverInit
NextRegistry ==
  \/ \E p \in MergePaths, content \in RegistryContents :
       Len(held) < MaxHeld /\ analyzeFileAndKeep(p, content)
  \/ \E i \in DOMAIN held, issues \in RegistryIssues :
       issueCount(held[i].component) + Len(issues) <= MaxIssues /\ registerComponent(i, issues)
SpecRegistry == InitRegistry /\ [][NextRegistry]_vars

\* Analyses, registrations of lint results and the analysis of the tree, over
\* files that use each other; the issues registered are results of
\* requireSectionHeading, which any of the files can have.
MaxCrossHeld   == 2    \* objects that callers keep, in the cross-component family
MaxCrossIssues == 2    \* issues of a component, in the cross-component family
CrossContents ==
  {[items |-> h \o u, layout |-> "lines"] :
     h \in {<<>>, <<HeadingItem(1)>>},
     u \in {<<>>} \cup {<<UseItem(q)>> : q \in MergePaths}}
sectionResult(line) ==
  LintResult([line |-> line, column |-> 0], <<"<section> missing heading (<h1>-<h6>)">>,
             "requireSectionHeading")
CrossIssues == {<<sectionResult(3)>>, <<sectionResult(3), sectionResult(4)>>}
InitCross == InitGraph
NextCross ==
  \/ \E p \in MergePaths, content \in CrossContents :
       Len(held) < MaxCrossHeld /\ analyzeFileAndKeep(p, content)
  \/ \E i \in DOMAIN held, issues \in CrossIssues :
       issueCount(held[i].component) + Len(issues) <= MaxCrossIssues /\ registerComponent(i, issues)
  \/ analyzeComponentTree
SpecCross == InitCross /\ [][NextCross]_vars

(***************************************************************************)
(* Specification of the lint runs                                          *)
(***************************************************************************)
InitRun == RunInit /\ IdleTree /\ TokInit /\ LintInit /\ BatchInit /\ RemapInit /\ ResolverInit
NextRun ==
  \/ scheduleWorkspaceLint
  \/ saveBeforeFirstScan
  \/ \E fp \in Files : lintEntries(fp)
  \/ \E r \in DOMAIN runs : workspaceEnumerated(r)
  \/ \E r \in DOMAIN runs : workspaceComputed(r)
  \/ \E r \in DOMAIN runs : entriesComputed(r)
  \/ \E r \in DOMAIN runs : workspaceSettled(r)
  \/ lintCommand
  \/ lintCommandResolved
SpecRun == InitRun /\ [][NextRun]_vars

\* lintFiles finds nothing to report and no linted file is open in an editor
QuietResults ==
  \A fp \in Files : diagCache'[fp].diags = <<>> /\ diagCache'[fp].etag = "null"

NextRunQuiet ==
  \/ scheduleWorkspaceLint
  \/ saveBeforeFirstScan
  \/ \E fp \in Files : lintEntries(fp)
  \/ \E r \in DOMAIN runs : workspaceEnumerated(r)
  \/ \E r \in DOMAIN runs : workspaceComputed(r) /\ QuietResults
  \/ \E r \in DOMAIN runs : entriesComputed(r) /\ QuietResults
  \/ \E r \in DOMAIN runs : workspaceSettled(r)
  \/ lintCommand
  \/ lintCommandResolved

\* The continuations of the runs are promise reactions: once lintFiles or
\* findFiles has settled the event loop runs them, whatever else is queued.
\* Saves, configuration changes and the command are the user's and may never
\* happen.
RunFairness ==
  /\ WF_vars(\E r \in DOMAIN runs : workspaceEnumerated(r))
  /\ WF_vars(\E r \in DOMAIN runs : workspaceComputed(r) /\ QuietResults)
  /\ WF_vars(\E r \in DOMAIN runs : entriesComputed(r) /\ QuietResults)
  /\ WF_vars(\E r \in DOMAIN runs : workspaceSettled(r))
  /\ WF_vars(lintCommandResolved)
SpecRunFair == InitRun /\ [][NextRunQuiet]_vars /\ RunFairness

InitBatch == BatchInit /\ IdleTree /\ RunInit /\ TokInit /\ LintInit /\ RemapInit /\ ResolverInit
NextBatch ==
  \/ lintWorkspace
  \/ \E s \in DOMAIN batch.scans : firstPassStarted(s)
  \/ \E s \in DOMAIN batch.scans : \E f \in BatchFiles : analyzeFileCalled(s, f)
  \/ \E s \in DOMAIN batch.scans : \E f \in BatchFiles : componentRegistered(s, f)
  \/ \E s \in DOMAIN batch.scans : secondPass(s)
SpecBatch == InitBatch /\ [][NextBatch]_vars

\* C22: in a workspace scan the cross-component analysis starts only after
\* the callback of every JSX/TSX file of the batch has returned, and the
\* registry it reads holds every file of the batch.
C22_AnalysisAfterFirstPass ==
  \A s \in DOMAIN batch.scans :
    batch.scans[s].pc = "secondPass" =>
      /\ callbacksSettled(s)
      /\ batch.scans[s].files \subseteq batch.scans[s].registryRead

\* C2: whatever the interleaving of workspace scans and file lint runs, the
\* diagnostics collection, diagCache and the issue counts change only in a step
\* in which a run completes, and that run's id is globalRunId: a run that a
\* newer run has superseded never writes.
C2_OnlyCurrentRunWrites ==
  [][ <<diagnostics, diagCache, issueCounts>>' # <<diagnostics, diagCache, issueCounts>>
      => \E r \in DOMAIN runs :
           /\ runs[r].pc = "computing" /\ runs'[r].pc = "complete"
           /\ r = globalRunId ]_vars

C2_Witness ==
  \E r1, r2 \in DOMAIN runs :
    /\ r1 < r2
    /\ runs[r1].pc = "discarded"
    /\ runs[r2].pc \in {"complete", "settled"}
    /\ \E fp \in Files : diagnostics[fp].present /\ diagnostics[fp].diags # <<>>

\* the executions of lintWorkspaceAtomic that have not returned
inProgress(rs) ==
  {r \in DOMAIN rs : rs[r].kind = "workspace" /\ rs[r].pc \in {"enumerating", "computing"}}
startsWorkspaceRun ==
  Len(runs') = Len(runs) + 1 /\ runs'[Len(runs')].kind = "workspace"
wrapperSettles ==
  \E r \in DOMAIN runs :
    runs[r].pc \in {"discarded", "complete"} /\ runs'[r].pc \in {"settled", "dropped"}

\* C16: at most one execution of lintWorkspaceAtomic is in progress at any
\* time; an execution starts only when none is in progress; a request that
\* arrives while the wrapper of an execution is active starts nothing and is
\* remembered until that execution has ended, where all remembered requests
\* together start exactly one follow-up execution.
C16_WorkspaceScansCoalesce ==
  [][ /\ Cardinality(inProgress(runs')) <= 1
      /\ startsWorkspaceRun => inProgress(runs) = {}
      /\ Len(runs') > Len(runs) => Len(runs') = Len(runs) + 1
      /\ (~workspaceQueued /\ workspaceQueued') => (runningWorkspace /\ runs' = runs)
      /\ (workspaceQueued /\ ~workspaceQueued') => (wrapperSettles /\ startsWorkspaceRun)
      /\ wrapperSettles =>
            /\ ~workspaceQueued'
            /\ IF workspaceQueued THEN startsWorkspaceRun ELSE Len(runs') = Len(runs)
    ]_vars
C16_Witness ==
  /\ workspaceQueued
  /\ \E r \in DOMAIN runs : runs[r].kind = "workspace" /\ runs[r].pc = "computing"

\* C17: when the promise of the zemdomu.lintWorkspace command resolves, a
\* workspace scan that started at or after the call of the command has
\* published its results.
C17_CommandScanPublished ==
  command.pc = "resolved" =>
    \E r \in DOMAIN runs :
      r > command.since /\ runs[r].kind = "workspace" /\ runs[r].pc = "settled"

publishes(r, kind) ==
  runs[r].kind = kind /\ runs[r].pc = "computing" /\ runs'[r].pc = "complete"

InitTok == TokStart /\ IdleTree /\ RunInit /\ LintInit /\ BatchInit /\ RemapInit /\ ResolverInit
NextTok == tokenizeStep \/ tokenizeDone
SpecTok == InitTok /\ [][NextTok]_vars

\* C3: every token the tokenizer emits consumes at least one character of the
\* input, also at a '<' that starts no comment, close tag or open tag, so that
\* tokenizing and tree building finish for every input.
C3_EveryTokenConsumes ==
  \A k \in DOMAIN tokens : tokens[k].next > tokens[k].index

(***************************************************************************)
(* Specifications of the linter                                            *)
(***************************************************************************)
\* every rule, each switched off in turn, both backends
InitRules ==
  /\ lint \in {lintLocals("html", rules, Parsed(<<>>)) : rules \in RuleOptionSets}
        \cup {lintLocals("jsx", rules, code) :
                rules \in RuleOptionSets, code \in JsxCodes(MaxRuleDocLen)}
  /\ doc = <<>>
  /\ calls = <<>>
  /\ IdleTree /\ RunInit /\ TokInit /\ BatchInit /\ RemapInit /\ ResolverInit
NextRules ==
  \/ lintHtml
  \/ \E node \in HtmlRuleNodes : Len(doc) < MaxRuleDocLen /\ traverse(node)
  \/ htmlReturn
  \/ \E node \in JsxRuleNodes : jsxVisit(node)
  \/ jsxReturn
SpecRules == InitRules /\ [][NextRules]_vars

\* headings and directives, all rules on, both backends
InitHeadings ==
  /\ lint \in {lintLocals("html", defaultRules, Parsed(<<>>))}
        \cup {lintLocals("jsx", defaultRules, code) : code \in JsxCodes(MaxHeadingDocLen)}
  /\ doc = <<>>
  /\ calls = <<>>
  /\ IdleTree /\ RunInit /\ TokInit /\ BatchInit /\ RemapInit /\ ResolverInit
NextHeadings ==
  \/ lintHtml
  \/ \E node \in HeadingNodes : Len(doc) < MaxHeadingDocLen /\ traverse(node)
  \/ htmlReturn
  \/ \E node \in HeadingNodes : jsxVisit(node)
  \/ jsxReturn
SpecHeadings == InitHeadings /\ [][NextHeadings]_vars

\* list nesting, all rules on, both backends
InitLists ==
  /\ lint \in {lintLocals("html", defaultRules, Parsed(<<>>))}
        \cup {lintLocals("jsx", defaultRules, code) : code \in JsxCodes(MaxListDocLen)}
  /\ doc = <<>>
  /\ calls = <<>>
  /\ IdleTree /\ RunInit /\ TokInit /\ BatchInit /\ RemapInit /\ ResolverInit
NextLists ==
  \/ lintHtml
  \/ \E node \in ListNodes : Len(doc) < MaxListDocLen /\ traverse(node)
  \/ htmlReturn
  \/ \E node \in ListNodes : jsxVisit(node)
  \/ jsxReturn
SpecLists == InitLists /\ [][NextLists]_vars

\* ids, all rules on, both backends
InitIds ==
  /\ lint \in {lintLocals("html", defaultRules, Parsed(<<>>))}
        \cup {lintLocals("jsx", defaultRules, code) : code \in JsxCodes(MaxIdDocLen)}
  /\ doc = <<>>
  /\ calls = <<>>
  /\ IdleTree /\ RunInit /\ TokInit /\ BatchInit /\ RemapInit /\ ResolverInit
NextIds ==
  \/ lintHtml
  \/ \E node \in IdNodes : Len(doc) < MaxIdDocLen /\ traverse(node)
  \/ htmlReturn
  \/ \E node \in IdNodes : jsxVisit(node)
  \/ jsxReturn
SpecIds == InitIds /\ [][NextIds]_vars

\* labels and form controls, all rules on, JSX
InitLabels ==
  /\ lint \in {lintLocals("jsx", defaultRules, code) : code \in JsxCodes(MaxLabelDocLen)}
  /\ doc = <<>>
  /\ calls = <<>>
  /\ IdleTree /\ RunInit /\ TokInit /\ BatchInit /\ RemapInit /\ ResolverInit
NextLabels ==
  \/ lintHtml
  \/ \E node \in LabelNodes : jsxVisit(node)
  \/ jsxReturn
SpecLabels == InitLabels /\ [][NextLabels]_vars

\* directives in HTML, all rules on
InitDirectives ==
  /\ lint = lintLocals("html", defaultRules, Parsed(<<>>))
  /\ doc = <<>>
  /\ calls = <<>>
  /\ IdleTree /\ RunInit /\ TokInit /\ BatchInit /\ RemapInit /\ ResolverInit
NextDirectives ==
  \/ lintHtml
  \/ \E node \in DirectiveNodes : Len(doc) < MaxDirectiveDocLen /\ traverse(node)
  \/ htmlReturn
SpecDirectives == InitDirectives /\ [][NextDirectives]_vars

\* raw maps of up to three files with up to MaxRemapResults results
RemapMessages ==
  { <<"Multiple", "<h1>", "tags:", "component", "'CompA'", "brings", "an", "extra", "<h1>">>,
    <<"Multiple", "<h1>", "tags:", "component", "'App'", "brings", "an", "extra", "<h1>">>,
    <<"Multiple", "<h1>", "across", "components">>,
    <<"Cross-component", "heading", "level", "skipped">>,
    <<"Cross-component", "heading", "level", "skipped", "in", "component", "'CompA'">>,
    <<"Only", "one", "<h1>", "per", "document">> }
RemapRules == {"singleH1", "enforceHeadingOrder"}
RemapResults ==
  {[rule |-> rule, message |-> message, line |-> 1, column |-> 10] :
     rule \in RemapRules, message \in RemapMessages}
RemapSources == {<<"x">>, <<"x", "\n", "x", "<h1", "x", "<h1">>}

\* the keys of a raw map, in every insertion order
RemapKeyOrders ==
  {ks \in UNION {[1..n -> RemapPaths] : n \in 0..Cardinality(RemapPaths)} :
     \A i, j \in DOMAIN ks : i # j => ks[i] # ks[j]}
RawMaps ==
  {[i \in DOMAIN ks |->
      [key |-> ks[i],
       value |-> LET mine == SelectSeq(flat, LAMBDA e : e.key = ks[i])
                 IN [k \in DOMAIN mine |-> mine[k].result]]] :
     ks \in RemapKeyOrders,
     flat \in UNION {[1..n -> [key : RemapPaths, result : RemapResults]] : n \in 0..MaxRemapResults}}

InitRemap ==
  /\ \E raw \in RawMaps, readFileSync \in [RemapPaths -> RemapSources] :
       remap = remapCalled(raw, readFileSync)
  /\ IdleTree /\ RunInit /\ TokInit /\ LintInit /\ BatchInit /\ ResolverInit
NextRemap == remapCrossComponent
SpecRemap == InitRemap /\ [][NextRemap]_vars

\* rule stacks and directives in HTML, all rules on
InitStacks ==
  /\ lint = lintLocals("html", defaultRules, Parsed(<<>>))
  /\ doc = <<>>
  /\ calls = <<>>
  /\ IdleTree /\ RunInit /\ TokInit /\ BatchInit /\ RemapInit /\ ResolverInit
NextStacks ==
  \/ lintHtml
  \/ \E node \in StackNodes : Len(doc) < MaxStackDocLen /\ traverse(node)
  \/ htmlReturn
SpecStacks == InitStacks /\ [][NextStacks]_vars

\* sections and headings, all rules on, both backends, no comments
InitSections ==
  /\ lint \in {lintLocals("html", defaultRules, Parsed(<<>>)),
               lintLocals("jsx", defaultRules, Parsed([i \in 1..MaxSectionDocLen |-> ""]))}
  /\ doc = <<>>
  /\ calls = <<>>
  /\ IdleTree /\ RunInit /\ TokInit /\ BatchInit /\ RemapInit /\ ResolverInit
NextSections ==
  \/ lintHtml
  \/ \E node \in SectionNodes : Len(doc) < MaxSectionDocLen /\ traverse(node)
  \/ htmlReturn
  \/ \E node \in SectionNodes : jsxVisit(node)
  \/ jsxReturn
SpecSections == InitSections /\ [][NextSections]_vars

\* text content, all rules on, both backends, no comments
InitText ==
  /\ lint \in {lintLocals("html", defaultRules, Parsed(<<>>)),
               lintLocals("jsx", defaultRules, Parsed([i \in 1..MaxTextDocLen |-> ""]))}
  /\ doc = <<>>
  /\ calls = <<>>
  /\ IdleTree /\ RunInit /\ TokInit /\ BatchInit /\ RemapInit /\ ResolverInit
NextText ==
  \/ lintHtml
  \/ \E node \in HtmlTextNodes : Len(doc) < MaxTextDocLen /\ traverse(node)
  \/ htmlReturn
  \/ \E node \in JsxTextNodes : jsxVisit(node)
  \/ jsxReturn
SpecText == InitText /\ [][NextText]_vars

\* several calls one after the other, two option sets, both backends
InitCalls ==
  /\ lint \in {lintLocals("html", rules, Parsed(<<>>)) : rules \in CallOptionSets}
        \cup {lintLocals("jsx", rules, code) :
                rules \in CallOptionSets, code \in JsxCodes(MaxCallDocLen)}
  /\ doc = <<>>
  /\ calls = <<>>
  /\ IdleTree /\ RunInit /\ TokInit /\ BatchInit /\ RemapInit /\ ResolverInit
NextCalls ==
  \/ lintHtml
  \/ \E node \in CallNodes : Len(doc) < MaxCallDocLen /\ traverse(node)
  \/ htmlReturn
  \/ \E node \in CallNodes : jsxVisit(node)
  \/ jsxReturn
  \/ \E rules \in CallOptionSets :
       \/ lintHtmlCalled("html", rules, Parsed(<<>>))
       \/ \E code \in JsxCodes(MaxCallDocLen) : lintHtmlCalled("jsx", rules, code)
SpecCalls == InitCalls /\ [][NextCalls]_vars

(***************************************************************************)
(* Claims about the analyzer                                               *)
(***************************************************************************)
\* C1: analyzeComponentTree completes for every registry, cyclic ones included:
\* no traversal enters a component a second time, so no call chain outgrows the
\* number of registered files and the call returns its results.
C1_AnalysisTerminates == treeStatus # "RangeError"

\* the cross-component results of the two checks, told apart by their message
crossH1Results ==
  SelectSeq(treeResults, LAMBDA r : r.message \in
     {"Multiple <h1> tags: component brings an extra <h1>", "Multiple <h1> across components"})
crossOrderResults ==
  SelectSeq(treeResults, LAMBDA r : r.message = "Cross-component heading level skipped")

hasLocalH1(p) == \E h \in Range(componentRegistry[p].headings) : h.level = 1
uses(p, q) == \E r \in Range(componentRegistry[p].usesComponents) : r.path = q
usageSite(p, q) ==
  firstUsage(CHOOSE r \in Range(componentRegistry[p].usesComponents) : r.path = q)

\* the registry holds exactly the entry file page and the component comp it uses
PageUsesOnly(page, comp) ==
  /\ page # comp
  /\ DOMAIN componentRegistry = {page, comp}
  /\ uses(page, comp)
  /\ ~uses(page, page) /\ ~uses(comp, page)

C6_SkipAtUsageSite ==
  \A page, compA \in MergePaths :
    (/\ treeStatus = "done" /\ treeOptions.crossComponentAnalysis
     /\ PageUsesOnly(page, compA)
     /\ Len(componentRegistry[page].headings) = 1 /\ hasLocalH1(page)
     /\ PosLess(headingPos(componentRegistry[page].headings[1]), usageSite(page, compA))
     /\ Len(componentRegistry[compA].headings) = 1
     /\ componentRegistry[compA].headings[1].level = 3
     /\ componentRegistry[compA].usesComponents = <<>>)
    => /\ Len(crossOrderResults) = 1
       /\ crossOrderResults[1].filePath = page
       /\ crossOrderResults[1].line = usageSite(page, compA).line
       /\ crossOrderResults[1].column = usageSite(page, compA).column

\* the latest analysis of p among the kept objects
latest(p) ==
  CHOOSE i \in DOMAIN held :
    /\ held[i].component.filePath = p
    /\ \A j \in DOMAIN held : held[j].component.filePath = p => j <= i

\* C20: after any sequence of analyses and registrations the registry entry
\* of a path has the headings and the usages that one analysis of the latest
\* content of the path produces, and its issues are those of that analysis
\* followed by the issues of at most one registration.
C20_IdempotentReplace ==
  \A p \in DOMAIN componentRegistry :
    LET fresh == extractComponentInfo(held[latest(p)].content, p, treeOptions)
        entry == componentRegistry[p]
    IN /\ entry.headings = fresh.headings
       /\ entry.usesComponents = fresh.usesComponents
       /\ \E issues \in RegistryIssues : entry.issues = pushIssues(fresh, issues, 1).issues

isEntryPoint(p) == \E i \in DOMAIN findEntryPoints : findEntryPoints[i].filePath = p
referencedByOther(p) ==
  \E q \in DOMAIN componentRegistry \ {p} :
    \E i \in DOMAIN componentRegistry[q].usesComponents :
      componentRegistry[q].usesComponents[i].path = p

\* C21: a registered file is an entry point exactly when no other registered
\* file has a usesComponents reference whose path is its path.
C21_EntryPoints ==
  \A p \in DOMAIN componentRegistry : isEntryPoint(p) <=> ~referencedByOther(p)

(***************************************************************************)
(* Claims about the linter                                                 *)
(***************************************************************************)
isElementAt(k, tag) == doc[k].node.type = "element" /\ doc[k].node.tagName = tag
isHeadingAt(k) == doc[k].node.type = "element" /\ isHeadingTag(doc[k].node.tagName)
\* the results of a rule located at the k-th node
resultsAt(k, rule) ==
  {i \in DOMAIN lint.results :
     /\ lint.results[i].rule = rule
     /\ lint.results[i].line = posOfNode(k).line /\ lint.results[i].column = posOfNode(k).column}

\* C4: in JSX mode a source text that the parser rejects yields exactly one
\* result, rule parseError at line 0, column 0, and the call does not throw.
C4_ParseErrorOnly ==
  (lint.mode = "jsx" /\ lint.code.rejected) =>
     /\ lint.status \in {"called", "returned"}
     /\ lint.status = "returned" =>
          /\ Len(lint.results) = 1
          /\ lint.results[1].rule = "parseError"
          /\ lint.results[1].line = 0 /\ lint.results[1].column = 0
C4_Witness ==
  lint.mode = "jsx" /\ lint.code.rejected /\ lint.status = "returned" /\ Len(lint.results) = 1

MissingOrEmpty ==
  { <<"<img> tag missing alt attribute">>, <<"<img> alt attribute is empty">>,
    <<"<a> tag missing non-empty href attribute">>,
    <<"<iframe> missing title attribute">>, <<"<iframe> title attribute is empty">>,
    <<"<html> element missing lang attribute">>, <<"<html> lang attribute is empty">> }
DynamicChecks ==
  { <<"img", "alt", "requireAltText">>, <<"a", "href", "requireHrefOnAnchors">>,
    <<"iframe", "title", "requireIframeTitle">>, <<"html", "lang", "requireHtmlLang">> }

\* C7: in the JSX backend an element whose alt, href, title or lang is a
\* dynamic expression gets no result of the attribute's rule that reports the
\* attribute as missing or empty.
C7_DynamicNeverMissing ==
  lint.mode = "jsx" =>
    \A k \in DOMAIN doc : \A c \in DynamicChecks :
      (isElementAt(k, c[1]) /\ doc[k].node.attrs[c[2]] = Expression) =>
         \A i \in resultsAt(k, c[3]) : lint.results[i].message \notin MissingOrEmpty

\* C8: with a rule switched off, no result carries that rule, in both backends.
C8_OffRuleSilent ==
  \A i \in DOMAIN lint.results :
    lint.results[i].rule \in RuleIds => lint.rules[lint.results[i].rule]
C8_Witness ==
  /\ lint.mode = "html" /\ lint.status = "returned"
  /\ ~lint.rules.requireAltText
  /\ \E k \in DOMAIN doc :
       isElementAt(k, "img") /\ doc[k].how = "visit" /\ doc[k].node.attrs["alt"] = Undefined
  /\ lint.results # <<>>

\* C9: in an HTML document with singleH1 enabled, an <h1> that no directive
\* suppresses gets exactly one singleH1 result when an <h1> precedes it in the
\* document and none when it is the first, so that n <h1> elements give n-1
\* results.
C9_SingleH1Count ==
  (lint.mode = "html" /\ lint.rules.singleH1) =>
    \A k \in DOMAIN doc :
      (isElementAt(k, "h1") /\ doc[k].how = "visit") =>
         Cardinality(resultsAt(k, "singleH1"))
            = IF \E j \in 1..(k - 1) : isElementAt(j, "h1") THEN 1 ELSE 0

previousHeading(k) ==
  CHOOSE j \in 1..(k - 1) : isHeadingAt(j) /\ \A m \in (j + 1)..(k - 1) : ~isHeadingAt(m)
skipsLevel(k) ==
  /\ \E j \in 1..(k - 1) : isHeadingAt(j)
  /\ headingLevel(doc[k].node.tagName) > headingLevel(doc[previousHeading(k)].node.tagName) + 1

\* C10: with enforceHeadingOrder enabled, a heading that no directive
\* suppresses gets a result exactly when a heading precedes it and its level is
\* greater than the level of the most recently opened heading plus 1, and the
\* result names both levels.
C10_HeadingOrder ==
  lint.rules.enforceHeadingOrder =>
    \A k \in DOMAIN doc :
      (isHeadingAt(k) /\ doc[k].how = "visit") =>
         IF skipsLevel(k)
         THEN /\ Cardinality(resultsAt(k, "enforceHeadingOrder")) = 1
              /\ \A i \in resultsAt(k, "enforceHeadingOrder") :
                   lint.results[i].message =
                     <<"Heading level skipped", doc[k].node.tagName,
                       doc[previousHeading(k)].node.tagName>>
         ELSE resultsAt(k, "enforceHeadingOrder") = {}

\* the elements of the input that are open where the k-th node stands,
\* outermost first, read off the input alone
RECURSIVE openBefore(_)
openBefore(k) ==
  IF k = 1 THEN <<>>
  ELSE LET s == openBefore(k - 1)
           n == doc[k - 1].node
       IN IF n.type = "element" /\ ~n.selfClosing THEN Append(s, k - 1)
          ELSE IF n.type = "close" /\ Len(s) > 0 THEN pop(s)
          ELSE s
hasEnclosing(k) == Len(openBefore(k)) > 0
enclosingTag(k) == doc[top(openBefore(k))].node.tagName
insideList(k) == hasEnclosing(k) /\ enclosingTag(k) \in {"ul", "ol"}

\* C11: with enforceListNesting enabled, in both backends, an <li> that no
\* directive suppresses gets no enforceListNesting result when its nearest
\* enclosing element is <ul> or <ol>, and exactly one when it has another
\* enclosing element or none.
C11_ListNesting ==
  lint.rules.enforceListNesting =>
    \A k \in DOMAIN doc :
      (isElementAt(k, "li") /\ doc[k].how = "visit") =>
         Cardinality(resultsAt(k, "enforceListNesting")) = IF insideList(k) THEN 0 ELSE 1

\* lintJsx run over the whole input of the state, as a function of the input:
\* the state of the traversal after the first k nodes, with no comments in
\* the source
RECURSIVE jsxAfter(_)
jsxAfter(k) ==
  IF k = 0
  THEN [lintLocals("jsx", lint.rules, Parsed([i \in DOMAIN doc |-> ""])) EXCEPT !.status = "traversing"]
  ELSE jsxNode(jsxAfter(k - 1), doc[k].node, k)
jsxResults == flushNav(jsxAfter(Len(doc))).results

\* rule ids with their positions
located(results) ==
  {<<results[i].rule, results[i].line, results[i].column>> : i \in DOMAIN results}

\* an input that is an element tree of both backends: elements with literal
\* attributes and text inside elements, every element closed, no comments
bothRepresent ==
  /\ \A k \in DOMAIN doc :
        /\ doc[k].node.type \in {"element", "close", "text"}
        /\ doc[k].node.type = "element" => \A a \in AttrNames : doc[k].node.attrs[a] # Expression
        /\ doc[k].node.type \in {"close", "text"} => hasEnclosing(k)
  /\ openBefore(Len(doc) + 1) = <<>>

\* C12: for an input that is an element tree of both backends, without
\* directives, the HTML backend returns the same rule ids at the same
\* positions as the JSX backend.
C12_BackendsAgree ==
  (lint.mode = "html" /\ lint.status = "returned" /\ bothRepresent) =>
     located(lint.results) = located(jsxResults)

hasLiteralId(k) ==
  /\ doc[k].node.type = "element"
  /\ isStringLiteral(doc[k].node.attrs["id"]) /\ doc[k].node.attrs["id"] # ""
sameIdBefore(k) ==
  \E j \in 1..(k - 1) : hasLiteralId(j) /\ doc[j].node.attrs["id"] = doc[k].node.attrs["id"]

\* C13: with uniqueIds enabled, an element with a non-empty literal id that
\* no directive suppresses gets exactly one uniqueIds result when an earlier
\* element of the file carries the same id and none when it is the first, so
\* that k elements with one id give k-1 results.
C13_UniqueIds ==
  lint.rules.uniqueIds =>
    \A k \in DOMAIN doc :
      (hasLiteralId(k) /\ doc[k].how = "visit") =>
         Cardinality(resultsAt(k, "uniqueIds")) = IF sameIdBefore(k) THEN 1 ELSE 0

isCommentAt(k, directive) == doc[k].node.type = "comment" /\ doc[k].node.text = directive
isElement(k) == doc[k].node.type = "element"
\* the first element after a disable-next comment
followsDisableNext(k) ==
  /\ isElement(k)
  /\ \E c \in 1..(k - 1) :
        isCommentAt(c, "zemdomu-disable-next") /\ \A m \in (c + 1)..(k - 1) : ~isElement(m)
\* an element opened between a disable comment and the next enable comment
inDisabledRange(k) ==
  /\ isElement(k)
  /\ \E c \in 1..(k - 1) :
        isCommentAt(c, "zemdomu-disable")
          /\ \A m \in (c + 1)..(k - 1) : ~isCommentAt(m, "zemdomu-enable")
\* an element that stands inside the element after a disable-next comment
insideSuppressed(k) ==
  \E i \in DOMAIN openBefore(k) : followsDisableNext(openBefore(k)[i])
allResultsAt(k) ==
  {i \in DOMAIN lint.results :
     lint.results[i].line = posOfNode(k).line /\ lint.results[i].column = posOfNode(k).column}

\* C14: in HTML the element that follows a zemdomu-disable-next comment has
\* no results, and neither has an element opened between zemdomu-disable and
\* the next zemdomu-enable; every other element that is not inside the
\* element after a disable-next comment is linted: an <img> without alt gets
\* its requireAltText result.
C14_HtmlDirectives ==
  lint.mode = "html" =>
    \A k \in DOMAIN doc :
      isElement(k) =>
        /\ (followsDisableNext(k) \/ inDisabledRange(k)) => allResultsAt(k) = {}
        /\ (~followsDisableNext(k) /\ ~inDisabledRange(k) /\ ~insideSuppressed(k)) =>
              /\ doc[k].how = "visit"
              /\ isElementAt(k, "img") => Cardinality(resultsAt(k, "requireAltText")) = 1

labelledBefore(k) ==
  \E j \in 1..(k - 1) :
    /\ isElementAt(j, "label") /\ doc[j].how = "visit"
    /\ doc[j].node.attrs["htmlFor"] = doc[k].node.attrs["id"]

\* C15: in JSX mode an <input id="X"> that a <label htmlFor="X"> precedes in
\* the file gets no requireLabelForFormControls result.
C15_LabelHtmlFor ==
  lint.mode = "jsx" =>
    \A k \in DOMAIN doc :
      (isElementAt(k, "input") /\ hasLiteralId(k) /\ labelledBefore(k)) =>
         resultsAt(k, "requireLabelForFormControls") = {}


(***************************************************************************)
(* Claims about calls of lintHtml one after the other                      *)
(***************************************************************************)
\* the calls that returned, the last one included
returnedCalls ==
  IF lint.status = "returned"
  THEN Append(calls, [mode |-> lint.mode, rules |-> lint.rules, code |-> lint.code,
                      doc |-> doc, results |-> lint.results])
  ELSE calls

sameInput(a, b) ==
  a.mode = b.mode /\ a.rules = b.rules /\ a.code = b.code /\ a.doc = b.doc

\* C23: the results of a call of lintHtml depend on its content, mode and
\* options only: two calls with the same content, mode and options return
\* the same results (rules, lines, columns, messages, in the same order),
\* whatever was linted before and between them.
C23_ResultsDependOnInputOnly ==
  \A i, j \in DOMAIN returnedCalls :
    sameInput(returnedCalls[i], returnedCalls[j])
      => returnedCalls[i].results = returnedCalls[j].results

\* the same input linted first and third, with results, another input between
C23_Witness ==
  /\ Len(returnedCalls) = 3
  /\ sameInput(returnedCalls[1], returnedCalls[3])
  /\ ~sameInput(returnedCalls[1], returnedCalls[2])
  /\ returnedCalls[1].results # <<>>
  /\ returnedCalls[2].results # <<>>
  /\ Len(returnedCalls[1].doc) = MaxCallDocLen


(***************************************************************************)
(* Claims about the rule of a result                                       *)
(***************************************************************************)
\* the value of result.rule; a result that was built without the property
\* reads as undefined
ruleOf(result) == IF "rule" \in DOMAIN result THEN result.rule ELSE "undefined"

\* C24: every result that lintHtml returned and every result that
\* analyzeComponentTree returned has a rule that is one of the sixteen rule
\* ids or parseError.
C24_RuleOfClosedSet ==
  /\ lint.status = "returned" =>
       \A i \in DOMAIN lint.results : ruleOf(lint.results[i]) \in RuleIds \cup {"parseError"}
  /\ \A i \in DOMAIN treeResults : ruleOf(treeResults[i]) \in RuleIds \cup {"parseError"}


(***************************************************************************)
(* Claims about remapCrossComponent                                        *)
(***************************************************************************)
\* the results of the raw map, as (entry, index) places
rawPlaces == {p \in (DOMAIN remap.raw) \X (1..MaxRemapResults) : p[2] <= Len(remap.raw[p[1]].value)}
rawResult(p) == remap.raw[p[1]].value[p[2]]
rawEntry(p) == remap.raw[p[1]].key

filesNamed(name) == {i \in DOMAIN remap.raw : remap.raw[i].key.base = name}
namesOneFile(r) ==
  compNameOf(r.message) # "" /\ Cardinality(filesNamed(compNameOf(r.message))) = 1
namedFile(r) == remap.raw[CHOOSE i \in filesNamed(compNameOf(r.message)) : TRUE].key

\* the results that are to move: the cross-component singleH1 results and,
\* with headingOrder, the cross-component enforceHeadingOrder results, that
\* name a component which exactly one file of the raw map defines
toMove(r, headingOrder) ==
  /\ \/ r.rule = "singleH1"
     \/ headingOrder /\ r.rule = "enforceHeadingOrder" /\ testCrossComponent(r.message)
  /\ namesOneFile(r)

isMoved(result) == "filePath" \in DOMAIN result
count(seq, Test(_)) == Cardinality({i \in DOMAIN seq : Test(seq[i])})

\* what the returned maps hold, against the raw map: under each file the
\* results that were to stay there, unchanged and as often as in the raw map,
\* and the results that were to move to it, with their rule and message, the
\* file as filePath and a non-negative position; for each entry file one
\* occurrence per result moved out of it, with the component's path
remapAgrees(headingOrder) ==
  /\ \A f \in RemapPaths :
       LET out == mapGetOrEmpty(remap.perFile, f)
       IN /\ \A x \in RemapResults :
               /\ count(out, LAMBDA o : ~isMoved(o) /\ o = x)
                    = Cardinality({p \in rawPlaces :
                        rawEntry(p) = f /\ rawResult(p) = x /\ ~toMove(x, headingOrder)})
               /\ count(out, LAMBDA o : isMoved(o) /\ o.rule = x.rule /\ o.message = x.message)
                    = Cardinality({p \in rawPlaces :
                        rawResult(p) = x /\ toMove(x, headingOrder) /\ namedFile(x) = f})
          /\ \A i \in DOMAIN out :
               isMoved(out[i]) => out[i].filePath = f /\ out[i].line >= 0 /\ out[i].column >= 0
  /\ \A e, c \in RemapPaths :
       count(mapGetOrEmpty(remap.summaries, e), LAMBDA occ : occ.componentPath = c)
         = Cardinality({p \in rawPlaces :
             rawEntry(p) = e /\ toMove(rawResult(p), headingOrder) /\ namedFile(rawResult(p)) = c})

\* C25 as stated: only the cross-component singleH1 results that name a
\* component of exactly one file move to that file, with one summary
\* occurrence each; every other result stays under its file, none is lost
\* or duplicated.
C25_OnlySingleH1Moves == remap.status = "returned" => remapAgrees(FALSE)

\* C25: the cross-component singleH1 results and the cross-component
\* enforceHeadingOrder results that name a component of exactly one file of
\* the raw map move to that file, keeping their rule, with a non-negative
\* position and one summary occurrence each for the entry file; every other
\* result stays under its file, none is lost or duplicated.
C25_CrossResultsMove == remap.status = "returned" => remapAgrees(TRUE)

\* a singleH1 result moved from its entry file to another file, at the place
\* of that file's first <h1, another result of the entry staying
C25_Witness ==
  /\ remap.status = "returned"
  /\ \E p, q \in rawPlaces :
       /\ rawResult(p).rule = "singleH1" /\ toMove(rawResult(p), TRUE)
       /\ namedFile(rawResult(p)) # rawEntry(p)
       /\ findFirstTagPos(remap.readFileSync[namedFile(rawResult(p))]) = [line |-> 1, col |-> 1]
       /\ rawEntry(q) = rawEntry(p) /\ ~toMove(rawResult(q), TRUE)


(***************************************************************************)
(* Claims about the rule stacks                                            *)
(***************************************************************************)
\* the lines of the elements with one of the tags that are open after the
\* nodes visited so far and that no directive kept from the rules
openVisited(tags) ==
  LET open == SelectSeq(openBefore(Len(doc) + 1),
                        LAMBDA k : doc[k].node.tagName \in tags /\ doc[k].how = "visit")
  IN [i \in DOMAIN open |-> posOfNode(open[i]).line]
linesOf(stack) == [i \in DOMAIN stack |-> stack[i].line]

\* C26: in the HTML backend, with all rules on, each rule stack holds at
\* every point of the traversal the entries of the elements of its tag that
\* are open there, in the order they opened: an entry is pushed at its
\* element's open and popped at that element's close, also when directive
\* comments stand inside elements.
C26_StacksFollowTree ==
  (lint.mode = "html" /\ lint.status = "traversing") =>
    /\ linesOf(lint.anchorStack) = openVisited({"a"})
    /\ linesOf(lint.sectionStack) = openVisited({"section"})
    /\ linesOf(lint.emptyStack) = openVisited({"strong"})
    /\ linesOf(lint.buttonStack) = openVisited({"button"})
    /\ linesOf(lint.tableStack) = openVisited({"table"})
    /\ linesOf(lint.navStack) = openVisited({"nav"})


(***************************************************************************)
(* Claims about sections                                                   *)
(***************************************************************************)
\* the k-th node is an element that stands inside the element opened at j
descendantOf(k, j) ==
  /\ doc[k].node.type = "element"
  /\ \E i \in DOMAIN openBefore(k) : openBefore(k)[i] = j

hasHeadingDescendant(j) ==
  \E k \in DOMAIN doc : descendantOf(k, j) /\ isHeadingTag(doc[k].node.tagName)

\* C27: with all rules on, in both backends, a <section> gets a
\* requireSectionHeading result exactly when no h1-h6 element stands among
\* its descendants, at any depth, inside a nested <section> included.
C27_SectionHeadingAnyDepth ==
  lint.status = "returned" =>
    \A j \in DOMAIN doc :
      (isElementAt(j, "section") /\ doc[j].how = "visit") =>
         (resultsAt(j, "requireSectionHeading") # {} <=> ~hasHeadingDescendant(j))


(***************************************************************************)
(* Claims about the independence of the rules                              *)
(***************************************************************************)
\* the call of the state made with other options: the locals after the
\* first k nodes of the same input
RECURSIVE lintedWith(_, _)
lintedWith(rules, k) ==
  IF k = 0
  THEN LET st == [lintLocals(lint.mode, rules, lint.code) EXCEPT !.status = "traversing"]
       IN IF lint.mode = "html" THEN st
          ELSE [st EXCEPT !.disableNextLines = directives(lint.code.comments).disableNextLines,
                          !.disableBlocks = directives(lint.code.comments).disableBlocks]
  ELSE IF lint.mode = "html" THEN htmlNode(lintedWith(rules, k - 1), doc[k].node, posOfNode(k))
  ELSE jsxNode(lintedWith(rules, k - 1), doc[k].node, k)
resultsWith(rules) ==
  IF lint.mode = "html" THEN flushNav(closeAll(lintedWith(rules, Len(doc)))).results
  ELSE flushNav(lintedWith(rules, Len(doc))).results

ofRule(results, R) == SelectSeq(results, LAMBDA r : r.rule = R)

\* C28: in both backends, for an input that parses, the results of a rule
\* that is on are the same with one other rule switched off as with all
\* rules on: switching a rule on or off does not change what another rule
\* reports.
C28_RulesIndependent ==
  (lint.status = "returned" /\ ~lint.code.rejected) =>
    \A R \in RuleIds :
      lint.rules[R] => ofRule(lint.results, R) = ofRule(resultsWith(defaultRules), R)


(***************************************************************************)
(* Claims about text content                                               *)
(***************************************************************************)
\* the rule that reports an element of the tag when it has no text
textRule(tag) ==
  IF tag = "a" THEN "requireLinkText"
  ELSE IF tag = "button" THEN "requireButtonText" ELSE "preventEmptyInlineTags"
isTextTag(tag) == tag \in {"a", "button"} \cup inlineTags

\* the element opened at k has no child: its closing tag is the next node
hasNoChildren(k) ==
  doc[k].node.selfClosing \/ (k < Len(doc) /\ doc[k + 1].node.type = "close")

hasLiteralAriaLabel(k) ==
  isStringLiteral(doc[k].node.attrs["aria-label"]) /\ trim(doc[k].node.attrs["aria-label"]) # ""

\* C29: in the JSX backend, with all rules on, an <a>, <button> or inline
\* tag without children has no text whatever its attributes are, an
\* expression as an attribute value included: it is reported by its rule
\* (a <button> unless it has a non-empty literal aria-label).
C29_AttributeExpressionIsNoText ==
  (lint.mode = "jsx" /\ lint.status = "returned") =>
    \A k \in DOMAIN doc :
      ( /\ doc[k].node.type = "element" /\ isTextTag(doc[k].node.tagName)
        /\ doc[k].how = "visit" /\ hasNoChildren(k)
        /\ ~(doc[k].node.tagName = "button" /\ hasLiteralAriaLabel(k)) )
      => resultsAt(k, textRule(doc[k].node.tagName)) # {}


\* a non-whitespace text node stands inside the element opened at k
hasTextInside(k) ==
  \E j \in DOMAIN doc :
    /\ doc[j].node.type = "text" /\ trim(doc[j].node.text) # ""
    /\ \E i \in DOMAIN openBefore(j) : openBefore(j)[i] = k

\* C30: in both backends, with all rules on, an <a>, <button> or inline tag
\* with a non-whitespace text node anywhere inside it, also inside another
\* inline tag or link, gets no result of its text rule.
C30_TextCountsForEveryOpenTag ==
  lint.status = "returned" =>
    \A k \in DOMAIN doc :
      ( /\ doc[k].node.type = "element" /\ isTextTag(doc[k].node.tagName)
        /\ doc[k].how = "visit" /\ hasTextInside(k) )
      => resultsAt(k, textRule(doc[k].node.tagName)) = {}


(***************************************************************************)
(* Claims about directives as a filter                                     *)
(***************************************************************************)
\* the call of the state made on the same input with the directive comments
\* taken out, every other node on its line: the locals after the first k nodes
RECURSIVE withoutDirectives(_)
withoutDirectives(k) ==
  IF k = 0
  THEN [lintLocals(lint.mode, lint.rules, Parsed([i \in DOMAIN lint.code.comments |-> ""]))
          EXCEPT !.status = "traversing"]
  ELSE IF doc[k].node.type = "comment" THEN withoutDirectives(k - 1)
  ELSE IF lint.mode = "html" THEN htmlNode(withoutDirectives(k - 1), doc[k].node, posOfNode(k))
  ELSE jsxNode(withoutDirectives(k - 1), doc[k].node, k)
resultsWithoutDirectives ==
  IF lint.mode = "html" THEN flushNav(closeAll(withoutDirectives(Len(doc)))).results
  ELSE flushNav(withoutDirectives(Len(doc))).results

\* the result is located at an element that a directive kept from the rules
atSuppressed(result) ==
  \E k \in DOMAIN doc :
    /\ doc[k].node.type = "element" /\ doc[k].how # "visit"
    /\ result.line = posOfNode(k).line /\ result.column = posOfNode(k).column

\* C31: in both backends, the results of an input with directives are the
\* results of the same input without them, less the results located at the
\* suppressed elements: a suppressed heading still counts for singleH1 and
\* for the heading order of the elements after it.
C31_DirectivesOnlyFilter ==
  (lint.status = "returned" /\ ~lint.code.rejected) =>
    lint.results = SelectSeq(resultsWithoutDirectives, LAMBDA r : ~atSuppressed(r))


(***************************************************************************)
(* Claims about the cross-component single <h1>                            *)
(***************************************************************************)
\* the registered files that a set of files uses, added to the set
withUsed(S) ==
  S \cup {q \in DOMAIN componentRegistry :
            \E p \in S : \E i \in DOMAIN componentRegistry[p].usesComponents :
              componentRegistry[p].usesComponents[i].path = q}
RECURSIVE reachableFrom(_)
reachableFrom(S) == IF withUsed(S) = S THEN S ELSE reachableFrom(withUsed(S))

\* the components reachable from the entry, the entry included, whose
\* registry entry holds a local <h1>
withLocalH1(entry) ==
  {p \in reachableFrom({entry}) :
     \E i \in DOMAIN componentRegistry[p].headings : componentRegistry[p].headings[i].level = 1}
extraH1(entry) ==
  IF withLocalH1(entry) = {} THEN 0 ELSE Cardinality(withLocalH1(entry)) - 1

RECURSIVE sumExtraH1(_, _)
sumExtraH1(entryPoints, i) ==
  IF i > Len(entryPoints) THEN 0
  ELSE extraH1(entryPoints[i].filePath) + sumExtraH1(entryPoints, i + 1)

\* C32: an analysis that returns yields, for each entry point, as many
\* cross-component singleH1 results as there are components with a local
\* <h1> reachable from it beyond the first: a component without a local <h1>
\* adds none, whatever lint results were registered for it.
C32_ExtraH1Count ==
  (treeStatus = "done" /\ treeOptions.crossComponentAnalysis /\ treeOptions.singleH1) =>
    Len(crossH1Results) = sumExtraH1(findEntryPoints, 1)


\* the first local <h1> of a registered file
firstH1(p) ==
  LET hs == SelectSeq(componentRegistry[p].headings, LAMBDA h : h.level = 1) IN hs[1]

\* the result is what the claim gives for component C reached from the entry
attributedFrom(result, entry, C) ==
  IF uses(entry, C)
  THEN /\ result.filePath = entry
       /\ result.line = usageSite(entry, C).line
       /\ result.column = usageSite(entry, C).column
  ELSE /\ result.filePath = C
       /\ result.line = firstH1(C).line
       /\ result.column = firstH1(C).column

\* C33: every cross-component singleH1 result names a component C with a
\* local <h1> that some entry point reaches, and is located in that entry
\* file at its first usage of C when the entry uses C directly, in C's own
\* file at C's <h1> when the entry reaches C through other components only.
C33_ExtraH1Attribution ==
  (treeStatus = "done" /\ treeOptions.crossComponentAnalysis /\ treeOptions.singleH1) =>
    \A i \in DOMAIN crossH1Results :
      LET C == crossH1Results[i].component
      IN \E e \in DOMAIN findEntryPoints :
           LET entry == findEntryPoints[e].filePath
           IN /\ C # entry /\ C \in withLocalH1(entry)
              /\ attributedFrom(crossH1Results[i], entry, C)

(***************************************************************************)
(* Claims about the merged heading sequence                                *)
(***************************************************************************)
\* a local heading goes before a child when its position is not later than
\* the child's first usage
localNotLater(heading, childLoc) ==
  \/ heading.line < childLoc.line
  \/ (heading.line = childLoc.line /\ heading.column <= childLoc.column)

\* the merged sequence with ties going to the local heading
RECURSIVE orderedByPosition(_, _), mergeByPosition(_, _, _, _, _, _)
orderedByPosition(component, stack) ==
  LET sorted == SortByPos(component.headings, headingPos)
      localHeadings == [i \in DOMAIN sorted |-> [heading |-> sorted[i], usageLocation |-> NoUsage]]
      childComponents ==
        SortByPos(SelectSeq(component.usesComponents,
                            LAMBDA ref : ref.path # NoPath /\ registered(ref.path)),
                  firstUsage)
  IN mergeByPosition(component, localHeadings, childComponents, 1, 1, stack)
mergeByPosition(component, localHeadings, childComponents, headingIndex, childIndex, stack) ==
  IF headingIndex > Len(localHeadings) /\ childIndex > Len(childComponents) THEN <<>>
  ELSE IF childIndex > Len(childComponents)
          \/ (headingIndex <= Len(localHeadings)
              /\ localNotLater(localHeadings[headingIndex].heading,
                               firstUsage(childComponents[childIndex])))
  THEN <<localHeadings[headingIndex]>> \o
       mergeByPosition(component, localHeadings, childComponents,
                       headingIndex + 1, childIndex, stack)
  ELSE LET childRef == childComponents[childIndex]
           usageLocation == UsageAt(component.filePath, firstUsage(childRef))
           expanded ==
             IF childRef.path \notin stack
             THEN LET sub == orderedByPosition(componentRegistry[childRef.path],
                                               stack \cup {childRef.path})
                  IN [i \in DOMAIN sub |->
                        [heading |-> sub[i].heading,
                         usageLocation |-> IF sub[i].usageLocation.isNull THEN usageLocation
                                           ELSE sub[i].usageLocation]]
             ELSE <<>>
       IN expanded \o
          mergeByPosition(component, localHeadings, childComponents,
                          headingIndex, childIndex + 1, stack)

\* C34: the merged heading sequence of every registered component lists its
\* local headings and each registered child's flattened headings in order of
\* position, a local heading at the position of a child's first usage first
C34_MergedInPositionOrder ==
  \A p \in DOMAIN componentRegistry :
    collectHeadingsInDocumentOrder(componentRegistry[p], {p})
      = orderedByPosition(componentRegistry[p], {p})

(***************************************************************************)
(* Claims about where a cross-component heading skip is reported           *)
(***************************************************************************)
\* where a skipped heading of the merged sequence is to be reported: a child's
\* heading at its usage location, a local heading at its own position
reportedAt(h) ==
  IF h.usageLocation.isNull
  THEN <<h.heading.filePath, h.heading.line, h.heading.column>>
  ELSE <<h.usageLocation.filePath, h.usageLocation.line, h.usageLocation.column>>

RECURSIVE skipPlaces(_, _, _)
skipPlaces(allHeadings, i, lastLevel) ==
  IF i > Len(allHeadings) THEN <<>>
  ELSE LET h == allHeadings[i]
           rest == skipPlaces(allHeadings, i + 1, h.heading.level)
       IN IF lastLevel > 0 /\ h.heading.level > lastLevel + 1
          THEN <<reportedAt(h)>> \o rest
          ELSE rest

entrySkipPlaces ==
  LET entryPoints == findEntryPoints
  IN flatten([e \in DOMAIN entryPoints |->
                skipPlaces(collectHeadingsInDocumentOrder(entryPoints[e],
                                                          {entryPoints[e].filePath}), 1, 0)])

\* C35: every cross-component heading-order result for a child's heading has
\* the file, line and column of one usage location, also on line 0 or at
\* column 0; a result for the entry file's own heading has that heading's
\* position.
C35_SkipPlaceFromOneLocation ==
  (treeStatus = "done" /\ treeOptions.crossComponentAnalysis
     /\ treeOptions.enforceHeadingOrder) =>
    [i \in DOMAIN crossOrderResults |->
       <<crossOrderResults[i].filePath, crossOrderResults[i].line,
         crossOrderResults[i].column>>] = entrySkipPlaces

(***************************************************************************)
(* Claims about ComponentPathResolver                                      *)
(***************************************************************************)
resolveCalls == resolver.log

\* C36: once resolve has returned null for an import, every later resolve of
\* the same import from the same directory returns null and hands no path to
\* fs.stat, also when the file exists by then.
C36_NullStaysNull ==
  \A i, j \in DOMAIN resolveCalls :
    (i < j /\ resolveCalls[i].importPath = resolveCalls[j].importPath
       /\ resolveCalls[i].result = NoFile)
    => (resolveCalls[j].result = NoFile /\ resolveCalls[j].stats = <<>>)
C36_Witness ==
  \E i, j \in DOMAIN resolveCalls :
    /\ i < j /\ resolveCalls[i].importPath = resolveCalls[j].importPath
    /\ resolveCalls[i].result = NoFile
    /\ resolveBase(resolveCalls[j].importPath) \in resolveCalls[j].fs
    /\ resolveCalls[j].result = NoFile /\ resolveCalls[j].stats = <<>>

\* what resolve returns when no import was resolved before
resolvedAlone(importPath, fs) ==
  resolveRelative([statCache |-> <<>>, stats |-> <<>>], importPath, fs).result

\* C37: over an unchanged set of files resolve returns for a relative import
\* what it returns when nothing was resolved before; an import with an
\* extension never resolves to another file than its own.
C37_ResolveIgnoresHistory ==
  \A j \in DOMAIN resolveCalls :
    /\ (\A i \in 1..j : resolveCalls[i].fs = resolveCalls[j].fs)
         => resolveCalls[j].result = resolvedAlone(resolveCalls[j].importPath, resolveCalls[j].fs)
    /\ resolveCalls[j].importPath.ext # ""
         => resolveCalls[j].result \in {NoFile, resolveBase(resolveCalls[j].importPath)}

(***************************************************************************)
(* Claims about the diagnostics, their cache and the issue tracker         *)
(***************************************************************************)
\* IssueTracker.getTotalCount(), lines 53-59 of the tracker
RECURSIVE countUpTo(_)
countUpTo(n) == IF n = 0 THEN 0 ELSE issueCounts[n] + countUpTo(n - 1)
getTotalCount == countUpTo(NumFiles)

RECURSIVE cachedUpTo(_)
cachedUpTo(n) == IF n = 0 THEN 0 ELSE Len(diagCache[n].diags) + cachedUpTo(n - 1)

runEnded(r, how) == runs[r].pc \in how

\* C39: a file has a diagCache entry exactly when it has published
\* diagnostics, the cached list is the published list, and getTotalCount()
\* is the sum of the lengths of the cached lists.
C39_CacheCollectionTrackerAgree ==
  /\ \A fp \in Files :
       /\ diagCache[fp].present <=> diagnostics[fp].present
       /\ diagCache[fp].diags = diagnostics[fp].diags
  /\ getTotalCount = cachedUpTo(NumFiles)
C39_Witness ==
  /\ \E r \in DOMAIN runs : runEnded(r, {"discarded", "dropped"})
  /\ \E r \in DOMAIN runs : runEnded(r, {"complete", "settled"})
  /\ \E fp \in Files : diagCache[fp].present /\ diagCache[fp].diags # <<>>
  /\ \E fp \in Files : ~diagCache[fp].present

(***************************************************************************)
(* Claims about what follows a save                                        *)
(***************************************************************************)
\* run r is the file lint run a save of fp started
savedRun(r, fp) ==
  r \in DOMAIN runs /\ runs[r].kind = "entries" /\ fp \in runs[r].entries

\* run r or a later run has published and had fp among its files; a
\* workspace scan has every file among its files
coveredFrom(r, fp) ==
  \E q \in DOMAIN runs :
    /\ q >= r
    /\ runs[q].pc \in {"complete", "settled"}
    /\ (runs[q].kind = "workspace" \/ fp \in runs[q].entries)

\* C38: the file lint run a save started is eventually followed by a run,
\* itself or a later one, that publishes and has the saved file among its
\* files, also when other runs start while it is in flight.
C38_SaveEventuallyPublished ==
  \A fp \in Files : \A r \in 1..MaxRuns : savedRun(r, fp) ~> coveredFrom(r, fp)
====
